---- MODULE Spec2Model ----
(***************************************************************************)
(* Atomic display commit helpers of drivers/gpu/drm/drm_atomic_helper.c.   *)
(*                                                                         *)
(* Objects (connectors, crtcs, encoders, planes) are numbered from 1 in    *)
(* list order; 0 is the NULL pointer.  Every object has a live state       *)
(* (connector->state, crtc->state, plane->state); a transaction (struct    *)
(* drm_atomic_state) holds the staged states of the objects it contains.   *)
(* A state object carries the field id naming its allocation: 0 is the     *)
(* object that was live when the transaction was allocated, 1 the          *)
(* duplicate made for the transaction.                                     *)
(***************************************************************************)
EXTENDS Integers, Sequences, FiniteSets, TLC

\* ---- bounds of the checked devices -------------------------------------
RoutingConnectors == 3
RoutingCrtcs == 2
RoutingEncoders == 2
PipelineConnectors == 1
PipelineCrtcs == 1
PipelinePlanes == 3
NumModes == 1
NumFbs == 1
RoutingCommits == 2
PipelineCommits == 1
LegacyConnectors == 2
LegacyCrtcs == 1
LegacyPlanes == 1
MaxRetries == 2
FencePlanes == 2
I915_PPGTT_PT_ENTRIES == 4
GEN6_PPGTT_PD_ENTRIES == 2
GEN8_PTES_PER_PAGE == 2
GEN8_PDES_PER_PAGE == 2
MaxPdp == 2
GttEntries == 6
NumObjects == 2
ClearPages == 2
MaxListLen == 4
ModesetConnectors == 2
ModesetCrtcs == 2
ModesetEncoders == 1
ModesetCommits == 2
FlipCrtcs == 2
FixupConnectors == 2
FixupCrtcs == 2
FixupEncoders == 2
FixupCommits == 1

\* ---- program constants -------------------------------------------------
NONE == 0
EINVAL == 22
EBUSY == 16
EDEADLK == 35
ENOMEM == 12
ENOSPC == 28
EIO == 5
GEN6_PTE_VALID == 1
GEN6_PTE_UNCACHED == 2
GEN6_PTE_CACHE_LLC == 4
Gen6Frames == 1048576
GEN6_PTE_HIGH == 256
PAGE_PRESENT == 1
PAGE_RW == 2
PPAT_UNCACHED_INDEX == 24
PPAT_DISPLAY_ELLC_INDEX == 16
PPAT_CACHED_INDEX == 128
GEN8_LEGACY_PDPS == 4
ScratchPage == 1
GEN7_PTE_CACHE_L3_LLC == 6
BYT_PTE_WRITEABLE == 2
BYT_PTE_SNOOPED_BY_CPU_CACHES == 4
PTE_READ_ONLY == 1
HSW_PTE_HIGH == 128
HSW_WB_LLC_AGE3 == 4
HSW_WT_ELLC_LLC_AGE3 == 14
HSW_WB_ELLC_LLC_AGE3 == 2048

VARIABLES
    num_connector,      \* dev->mode_config.num_connector
    num_crtc,           \* dev->mode_config.num_crtc
    num_encoder,        \* dev->mode_config.num_encoder
    num_total_plane,    \* dev->mode_config.num_total_plane
    has_prepare_fb,     \* plane helper funcs->prepare_fb != NULL
    has_cleanup_fb,     \* plane helper funcs->cleanup_fb != NULL
    connector_state,    \* connector->state, by connector
    crtc_state,         \* crtc->state, by crtc
    plane_state,        \* plane->state, by plane
    connector_encoder,  \* connector->encoder (legacy link)
    encoder_crtc,       \* encoder->crtc (legacy link)
    crtc_legacy,        \* crtc->mode, crtc->enabled (legacy state)
    plane_fb,           \* plane->fb (legacy pointer), by plane
    state,              \* the struct drm_atomic_state of the caller
    pc,                 \* position of the caller
    ret,                \* value returned by the last check or commit
    async,              \* the async argument of drm_atomic_helper_commit
    calls,              \* framebuffer hooks and vblank services invoked for the
                        \* transaction, in order, as <<hook, plane or crtc,
                        \* framebuffer, value returned>>
    hooks,              \* encoder, bridge and crtc hooks invoked for the
                        \* transaction, in order, as <<hook, encoder or crtc,
                        \* FALSE if the hook returned false>>
    phases,             \* commit phases started for the transaction, in order
    requested,          \* the transaction as handed to the check that just returned
    staged,             \* the transaction as handed to drm_atomic_helper_commit
    before,             \* the live states when the transaction was handed over
    oops,               \* a NULL pointer was dereferenced
    best_encoder,       \* what funcs->best_encoder answered in that check
    commits,            \* number of transactions committed so far
    helper,             \* the legacy helper being called and its arguments
    contended,          \* the lock domain may still signal a deadlock
    retries,            \* backoff rounds of the call (counted up to MaxRetries)
    frees,              \* drm_atomic_state_free calls on the call's transaction
    handed,             \* successful commits that took the call's transaction
    signalled,          \* planes whose fence, if the transaction gives them one,
                        \* has signalled
    gen,                \* INTEL_INFO(dev)->gen, 0 without a GPU
    enable_ppgtt,       \* i915.enable_ppgtt as sanitized
    ppgtt,              \* the aliasing or the per-process page table
    gsm,                \* the entries of the global table (dev_priv->gtt.gsm)
    obj,                \* by object: its VMA and its mapping flags
    gpc,                \* position of the page-table caller
    last,               \* the last page-table operation, its object, and the
                        \* operation before it when that was on the same object
    eval                \* a pure function under evaluation: its arguments and,
                        \* once it returned, its result

vars == <<num_connector, num_crtc, num_encoder, num_total_plane,
          has_prepare_fb, has_cleanup_fb,
          connector_state, crtc_state, plane_state,
          connector_encoder, encoder_crtc, crtc_legacy, plane_fb,
          state, pc, ret, async, calls, hooks, phases, requested, staged, before, oops, best_encoder, commits,
          helper, contended, retries, frees, handed, signalled,
          gen, enable_ppgtt, ppgtt, gsm, obj, gpc, last, eval>>

\* the page tables
gttvars == <<gen, enable_ppgtt, ppgtt, gsm, obj, gpc, last, eval>>

\* the caller of a legacy helper
helpervars == <<helper, contended, retries, frees, handed>>

\* the device, and what a transaction built by hand leaves alone
devvars == <<num_connector, num_crtc, num_encoder, num_total_plane,
             has_prepare_fb, has_cleanup_fb, helpervars, gttvars>>

\* the device and the answers its callbacks gave
fixedvars == <<devvars, best_encoder, requested, signalled>>

livevars == <<connector_state, crtc_state, plane_state>>

\* the display
displayvars == <<num_connector, num_crtc, num_encoder, num_total_plane,
                 has_prepare_fb, has_cleanup_fb,
                 connector_state, crtc_state, plane_state,
                 connector_encoder, encoder_crtc, crtc_legacy, plane_fb,
                 state, pc, ret, async, calls, hooks, phases, requested, staged, before, oops,
                 best_encoder, commits,
                 helper, contended, retries, frees, handed, signalled>>

legacyvars == <<connector_encoder, encoder_crtc, crtc_legacy, plane_fb>>

Connectors == 1 .. num_connector
Crtcs == 1 .. num_crtc
Encoders == 1 .. num_encoder
Planes == 1 .. num_total_plane
Modes == 0 .. NumModes
Fbs == 1 .. NumFbs

\* ---- state objects -----------------------------------------------------
\* kzalloc'ed states of the reset hooks
ResetConnectorState == [crtc |-> NONE, best_encoder |-> NONE, id |-> 0]

ResetCrtcState ==
    [enable |-> FALSE, mode |-> 0, adjusted_mode |-> 0,
     mode_changed |-> FALSE, planes_changed |-> FALSE, event |-> FALSE, id |-> 0]

ResetPlaneState == [crtc |-> NONE, fb |-> NONE, fence |-> FALSE, id |-> 0]

\* drm_atomic_state_alloc / drm_atomic_state_clear: no object in the transaction
EmptyState ==
    [connectors |-> {}, connector_states |-> [c \in Connectors |-> ResetConnectorState],
     crtcs |-> {}, crtc_states |-> [k \in Crtcs |-> ResetCrtcState],
     planes |-> {}, plane_states |-> [p \in Planes |-> ResetPlaneState]]

\* The memory an operation works on: the live states, the transaction, the
\* value returned so far and whether a NULL pointer was dereferenced.
Mem ==
    [connector_state |-> connector_state, crtc_state |-> crtc_state,
     plane_state |-> plane_state, state |-> state, ret |-> 0, oops |-> FALSE,
     hooks |-> hooks]

Fail(m, err) == [m EXCEPT !.ret = err]

\* the devices followed: encoders with an odd index have a bridge and no
\* disable hook (dpms is used), the others a disable hook and no bridge; crtcs
\* with an odd index have a disable hook
HasBridge(e) == e % 2 = 1
EncoderHasDisable(e) == e % 2 = 0
CrtcHasDisable(k) == k % 2 = 1

Hooked(m, hook, x) == [m EXCEPT !.hooks = Append(@, <<hook, x, TRUE>>)]

\* ret = hook(...); if (!ret) return -EINVAL, for a hook that returns false
Refused(m, hook, x) ==
    [m EXCEPT !.hooks = Append(@, <<hook, x, FALSE>>), !.ret = EINVAL]

\* if (encoder->bridge) encoder->bridge->funcs->hook(encoder->bridge)
BridgeHook(m, hook, e) == IF HasBridge(e) THEN Hooked(m, hook, e) ELSE m

\* ---- duplicate hooks ---------------------------------------------------
drm_atomic_helper_connector_duplicate_state(s) == [s EXCEPT !.id = 1 - s.id]

\* a variant that copies the flags and the event as they are
crtc_duplicate_state_keep(s) == [s EXCEPT !.id = 1 - s.id]

drm_atomic_helper_crtc_duplicate_state(s) ==
    [s EXCEPT !.mode_changed = FALSE, !.planes_changed = FALSE, !.event = FALSE,
              !.id = 1 - s.id]

drm_atomic_helper_plane_duplicate_state(s) == [s EXCEPT !.id = 1 - s.id]

\* ---- core transaction interface (drm_atomic.c) -------------------------
\* env.fail = <<kind, object>> names the one external call that fails.
\* if (ret) return ret; else go on with K
OnOk(m, K(_)) == CHOOSE y \in {IF x.ret # 0 THEN x ELSE K(x) : x \in {m}} : TRUE

drm_atomic_get_crtc_state(m, k, env) ==
    IF k \in m.state.crtcs THEN m
    ELSE IF env.fail = <<"lock_crtc", k>> THEN Fail(m, EDEADLK)
    ELSE [m EXCEPT !.state.crtcs = @ \cup {k},
                   !.state.crtc_states[k] =
                       drm_atomic_helper_crtc_duplicate_state(m.crtc_state[k])]

\* if (crtc) drm_atomic_get_crtc_state(state, crtc)
GetCrtcIfSet(m, k, env) ==
    IF k # NONE THEN drm_atomic_get_crtc_state(m, k, env) ELSE m

drm_atomic_get_connector_state(m, c, env) ==
    IF c \in m.state.connectors THEN m
    ELSE IF env.fail = <<"lock_connector", c>> THEN Fail(m, EDEADLK)
    ELSE GetCrtcIfSet(
             [m EXCEPT !.state.connectors = @ \cup {c},
                       !.state.connector_states[c] =
                           drm_atomic_helper_connector_duplicate_state(
                               m.connector_state[c])],
             m.connector_state[c].crtc, env)

drm_atomic_set_crtc_for_connector(m, c, k, env) ==
    OnOk(GetCrtcIfSet(m, k, env),
         LAMBDA x : [x EXCEPT !.state.connector_states[c].crtc = k])

drm_atomic_get_plane_state(m, p, env) ==
    IF p \in m.state.planes THEN m
    ELSE GetCrtcIfSet(
             [m EXCEPT !.state.planes = @ \cup {p},
                       !.state.plane_states[p] =
                           drm_atomic_helper_plane_duplicate_state(m.plane_state[p])],
             m.plane_state[p].crtc, env)

drm_atomic_set_crtc_for_plane(m, p, k, env) ==
    OnOk(GetCrtcIfSet(m, k, env),
         LAMBDA x : [x EXCEPT !.state.plane_states[p].crtc = k])

RECURSIVE AddAffectedFrom(_, _, _, _)
AddAffectedFrom(m, k, c, env) ==
    IF c > num_connector \/ m.ret # 0 THEN m
    ELSE IF m.connector_state[c].crtc # k THEN AddAffectedFrom(m, k, c + 1, env)
    ELSE AddAffectedFrom(drm_atomic_get_connector_state(m, c, env), k, c + 1, env)

drm_atomic_add_affected_connectors(m, k, env) == AddAffectedFrom(m, k, 1, env)

drm_atomic_connectors_for_crtc(m, k) ==
    Cardinality({c \in m.state.connectors : m.state.connector_states[c].crtc = k})

\* ---- routing resolution ------------------------------------------------
\* a variant that marks crtc->state instead of the state of the transaction
SetModeChanged_live(m, k) ==
    IF k \in m.state.crtcs THEN [m EXCEPT !.crtc_state[k].mode_changed = TRUE]
    ELSE [m EXCEPT !.oops = TRUE]

\* crtc_state = state->crtc_states[drm_crtc_index(crtc)]; crtc_state->mode_changed = true
SetModeChanged(m, k) ==
    IF k \in m.state.crtcs THEN [m EXCEPT !.state.crtc_states[k].mode_changed = TRUE]
    ELSE [m EXCEPT !.oops = TRUE]

\* the connectors whose live state holds the encoder, in list order
LiveHolders(m, encoder) ==
    {c \in Connectors : m.connector_state[c].best_encoder = encoder}

get_current_crtc_for_encoder(m, encoder) ==
    IF LiveHolders(m, encoder) = {} THEN NONE
    ELSE LET first == CHOOSE c \in LiveHolders(m, encoder) :
                          \A d \in LiveHolders(m, encoder) : c <= d
         IN  m.connector_state[first].crtc

\* a variant that leaves the encoder on the connector it is stolen from
steal_connector_keep_encoder(m, c, env) ==
    OnOk(drm_atomic_get_connector_state(m, c, env),
         LAMBDA x : drm_atomic_set_crtc_for_connector(x, c, NONE, env))

\* body of the list_for_each_entry loop of steal_encoder for a connector that
\* holds the encoder
steal_connector(m, c, env) ==
    OnOk(drm_atomic_get_connector_state(m, c, env),
         LAMBDA x :
             OnOk(drm_atomic_set_crtc_for_connector(x, c, NONE, env),
                  LAMBDA y : [y EXCEPT !.state.connector_states[c].best_encoder = NONE]))

RECURSIVE StealFrom(_, _, _, _)
StealFrom(m, encoder, c, env) ==
    IF c > num_connector \/ m.ret # 0 THEN m
    ELSE IF m.connector_state[c].best_encoder # encoder
    THEN StealFrom(m, encoder, c + 1, env)
    ELSE StealFrom(steal_connector(m, c, env), encoder, c + 1, env)

steal_encoder(m, encoder, enc_crtc, env) ==
    OnOk(drm_atomic_get_crtc_state(m, enc_crtc, env),
         LAMBDA x : StealFrom(SetModeChanged(x, enc_crtc), encoder, 1, env))

\* if (crtc) { ...; crtc_state->mode_changed = true; }
MarkIfSet(m, k) == IF k # NONE THEN SetModeChanged(m, k) ELSE m

\* if (connector->state->crtc != connector_state->crtc) mark both crtcs
crtc_changed(m, i) ==
    IF m.connector_state[i].crtc = m.state.connector_states[i].crtc THEN m
    ELSE MarkIfSet(MarkIfSet(m, m.connector_state[i].crtc),
                   m.state.connector_states[i].crtc)

\* encoder_crtc = get_current_crtc_for_encoder(...); if (encoder_crtc) steal_encoder(...)
steal_if_in_use(m, encoder, env) ==
    IF get_current_crtc_for_encoder(m, encoder) = NONE THEN m
    ELSE steal_encoder(m, encoder, get_current_crtc_for_encoder(m, encoder), env)

\* idx = drm_crtc_index(connector_state->crtc); state->crtc_states[idx]->mode_changed = true
mark_connector_crtc(m, i) ==
    IF m.state.connector_states[i].crtc = NONE THEN [m EXCEPT !.oops = TRUE]
    ELSE SetModeChanged(m, m.state.connector_states[i].crtc)

\* connector_state->best_encoder = new_encoder and the marking of its crtc
set_best_encoder(m, i, new_encoder) ==
    mark_connector_crtc(
        [m EXCEPT !.state.connector_states[i].best_encoder = new_encoder], i)

\* update_connector_routing from the test of connector_state->crtc on
pick_encoder(m, i, new_encoder, env) ==
    IF m.state.connector_states[i].crtc = NONE
    THEN [m EXCEPT !.state.connector_states[i].best_encoder = NONE]
    ELSE IF new_encoder = NONE THEN Fail(m, EINVAL)
    ELSE IF new_encoder = m.state.connector_states[i].best_encoder THEN m
    ELSE OnOk(steal_if_in_use(m, new_encoder, env),
              LAMBDA x : set_best_encoder(x, i, new_encoder))

update_connector_routing(m, i, env) ==
    IF i \notin m.state.connectors THEN m
    ELSE pick_encoder(crtc_changed(m, i), i, env.best_encoder[i], env)

\* ---- mode validation ---------------------------------------------------
\* for every crtc with mode_changed: drm_mode_copy(&adjusted_mode, &mode)
RECURSIVE CopyHooks(_, _, _)
CopyHooks(st, k, log) ==
    IF k > num_crtc THEN log
    ELSE CopyHooks(st, k + 1,
                   IF k \in st.crtcs /\ st.crtc_states[k].mode_changed
                   THEN Append(log, <<"drm_mode_copy", k, TRUE>>) ELSE log)

CopyModes(m) ==
    [m EXCEPT !.state.crtc_states =
        [k \in Crtcs |->
            IF k \in m.state.crtcs /\ m.state.crtc_states[k].mode_changed
            THEN [m.state.crtc_states[k] EXCEPT
                     !.adjusted_mode = m.state.crtc_states[k].mode]
            ELSE m.state.crtc_states[k]],
              !.hooks = CopyHooks(m.state, 1, @)]

\* a mode_fixup hook may rewrite the adjusted mode of the crtc state it is given
Fixup(m, k, env) == [m EXCEPT !.state.crtc_states[k].adjusted_mode = env.adjusted]

\* the bridge's mode_fixup, then the encoder's
EncoderFixupHooks(m, e) ==
    Hooked(BridgeHook(m, "bridge_mode_fixup", e), "encoder_mode_fixup", e)

RECURSIVE EncoderFixups(_, _, _)
EncoderFixups(m, i, env) ==
    IF i > num_connector \/ m.ret # 0 THEN m
    ELSE IF i \notin m.state.connectors THEN EncoderFixups(m, i + 1, env)
    ELSE
      LET cs == m.state.connector_states[i]
      IN  IF cs.crtc = NONE \/ cs.best_encoder = NONE
          THEN EncoderFixups(m, i + 1, env)
          ELSE IF cs.crtc \notin m.state.crtcs THEN [m EXCEPT !.oops = TRUE]
          ELSE IF HasBridge(cs.best_encoder)
                  /\ env.fail = <<"bridge_fixup", cs.best_encoder>>
          THEN Refused(Fixup(m, cs.crtc, env), "bridge_mode_fixup", cs.best_encoder)
          ELSE IF env.fail = <<"encoder_fixup", cs.best_encoder>>
          THEN Refused(Fixup(BridgeHook(m, "bridge_mode_fixup", cs.best_encoder),
                             cs.crtc, env),
                       "encoder_mode_fixup", cs.best_encoder)
          ELSE EncoderFixups(Fixup(EncoderFixupHooks(m, cs.best_encoder), cs.crtc, env),
                             i + 1, env)

RECURSIVE CrtcFixups(_, _, _)
CrtcFixups(m, k, env) ==
    IF k > num_crtc \/ m.ret # 0 THEN m
    ELSE IF k \notin m.state.crtcs \/ ~m.state.crtc_states[k].mode_changed
    THEN CrtcFixups(m, k + 1, env)
    ELSE IF env.fail = <<"crtc_fixup", k>>
    THEN Refused(Fixup(m, k, env), "crtc_mode_fixup", k)
    ELSE CrtcFixups(Fixup(Hooked(m, "crtc_mode_fixup", k), k, env), k + 1, env)

\* a variant that asks the crtcs first
mode_fixup_crtcs_first(m, env) ==
    OnOk(CrtcFixups(CopyModes(m), 1, env), LAMBDA x : EncoderFixups(x, 1, env))

mode_fixup(m, env) ==
    OnOk(EncoderFixups(CopyModes(m), 1, env), LAMBDA x : CrtcFixups(x, 1, env))

\* ---- check phase -------------------------------------------------------
\* first loop of drm_atomic_helper_check_prepare: mode or enable differs
MarkChangedCrtcs(m) ==
    [m EXCEPT !.state.crtc_states =
        [k \in Crtcs |->
            IF k \in m.state.crtcs
               /\ (m.crtc_state[k].mode # m.state.crtc_states[k].mode
                   \/ m.crtc_state[k].enable # m.state.crtc_states[k].enable)
            THEN [m.state.crtc_states[k] EXCEPT !.mode_changed = TRUE]
            ELSE m.state.crtc_states[k]]]

RECURSIVE RoutingLoop(_, _, _)
RoutingLoop(m, i, env) ==
    IF i > num_connector \/ m.ret # 0 THEN m
    ELSE RoutingLoop(update_connector_routing(m, i, env), i + 1, env)

\* if (crtc_state->enable != !!num_connectors) return -EINVAL
check_connectors(m, k) ==
    IF m.state.crtc_states[k].enable # (drm_atomic_connectors_for_crtc(m, k) > 0)
    THEN Fail(m, EINVAL)
    ELSE m

RECURSIVE ConsistencyLoop(_, _, _)
ConsistencyLoop(m, k, env) ==
    IF k > num_crtc \/ m.ret # 0 THEN m
    ELSE IF k \notin m.state.crtcs \/ ~m.state.crtc_states[k].mode_changed
    THEN ConsistencyLoop(m, k + 1, env)
    ELSE ConsistencyLoop(OnOk(drm_atomic_add_affected_connectors(m, k, env),
                              LAMBDA x : check_connectors(x, k)),
                         k + 1, env)

drm_atomic_helper_check_prepare(m, env) ==
    OnOk(OnOk(RoutingLoop(MarkChangedCrtcs(m), 1, env),
              LAMBDA x : ConsistencyLoop(x, 1, env)),
         LAMBDA y : mode_fixup(y, env))

SetPlanesChanged(m, k) ==
    [m EXCEPT !.state.crtc_states[k].planes_changed = TRUE]

\* second half of drm_atomic_helper_plane_changed: if (plane_state->crtc) ...
new_crtc_planes_changed(m, p) ==
    IF m.state.plane_states[p].crtc = NONE
       \/ m.state.plane_states[p].crtc \notin m.state.crtcs
    THEN m
    ELSE SetPlanesChanged(m, m.state.plane_states[p].crtc)

\* plane->crtc, which line 64 indexes with, is taken to be plane->state->crtc
drm_atomic_helper_plane_changed(m, p) ==
    IF m.plane_state[p].crtc = NONE THEN new_crtc_planes_changed(m, p)
    ELSE IF m.plane_state[p].crtc \notin m.state.crtcs THEN m
    ELSE new_crtc_planes_changed(SetPlanesChanged(m, m.plane_state[p].crtc), p)

\* ret = funcs->atomic_check(plane, plane_state)
plane_atomic_check(m, p, env) ==
    IF env.fail = <<"plane_check", p>> THEN Fail(m, EINVAL) ELSE m

RECURSIVE PlaneChecks(_, _, _)
PlaneChecks(m, p, env) ==
    IF p > num_total_plane \/ m.ret # 0 THEN m
    ELSE IF p \notin m.state.planes THEN PlaneChecks(m, p + 1, env)
    ELSE PlaneChecks(plane_atomic_check(drm_atomic_helper_plane_changed(m, p), p, env),
                     p + 1, env)

RECURSIVE CrtcChecks(_, _, _)
CrtcChecks(m, k, env) ==
    IF k > num_crtc \/ m.ret # 0 THEN m
    ELSE IF k \notin m.state.crtcs THEN CrtcChecks(m, k + 1, env)
    ELSE IF env.fail = <<"crtc_check", k>> THEN Fail(m, EINVAL)
    ELSE CrtcChecks(m, k + 1, env)

drm_atomic_helper_check(m, env) ==
    OnOk(OnOk(drm_atomic_helper_check_prepare(m, env),
              LAMBDA x : PlaneChecks(x, 1, env)),
         LAMBDA y : CrtcChecks(y, 1, env))

\* ---- commit phases ------------------------------------------------------
RECURSIVE CleanupPrepared(_, _, _)
CleanupPrepared(st, i, log) ==
    IF i < 1 THEN log
    ELSE IF i \in st.planes /\ st.plane_states[i].fb # NONE /\ has_cleanup_fb
    THEN CleanupPrepared(st, i - 1, Append(log, <<"cleanup_fb", i, st.plane_states[i].fb, 0>>))
    ELSE CleanupPrepared(st, i - 1, log)

\* a variant whose unwinding starts at the plane that failed
prepare_planes_fail_from_i(st, i, log) == CleanupPrepared(st, i, log)

\* the fail: label, for (i--; i >= 0; i--)
prepare_planes_fail(st, i, log) == CleanupPrepared(st, i - 1, log)

RECURSIVE PrepareFrom(_, _, _, _)
PrepareFrom(st, i, env, log) ==
    IF i > num_total_plane THEN [ret |-> 0, calls |-> log]
    ELSE IF i \in st.planes /\ st.plane_states[i].fb # NONE /\ has_prepare_fb
    THEN IF env.fail = <<"prepare_fb", i>>
         THEN [ret |-> env.err,
               calls |-> prepare_planes_fail(st, i,
                             Append(log, <<"prepare_fb", i, st.plane_states[i].fb, env.err>>))]
         ELSE PrepareFrom(st, i + 1, env,
                          Append(log, <<"prepare_fb", i, st.plane_states[i].fb, 0>>))
    ELSE PrepareFrom(st, i + 1, env, log)

drm_atomic_helper_prepare_planes(st, env, log) == PrepareFrom(st, 1, env, log)

\* a variant that leaves the planes alone
swap_state_skip_planes(m) ==
    [m EXCEPT
        !.connector_state = [c \in Connectors |->
            IF c \in m.state.connectors THEN m.state.connector_states[c]
            ELSE m.connector_state[c]],
        !.state.connector_states = [c \in Connectors |->
            IF c \in m.state.connectors THEN m.connector_state[c]
            ELSE m.state.connector_states[c]],
        !.crtc_state = [k \in Crtcs |->
            IF k \in m.state.crtcs THEN m.state.crtc_states[k]
            ELSE m.crtc_state[k]],
        !.state.crtc_states = [k \in Crtcs |->
            IF k \in m.state.crtcs THEN m.crtc_state[k]
            ELSE m.state.crtc_states[k]]]

\* a variant that installs the staged states without keeping the old ones
swap_state_copy(m) ==
    [m EXCEPT
        !.connector_state = [c \in Connectors |->
            IF c \in m.state.connectors THEN m.state.connector_states[c]
            ELSE m.connector_state[c]],
        !.crtc_state = [k \in Crtcs |->
            IF k \in m.state.crtcs THEN m.state.crtc_states[k]
            ELSE m.crtc_state[k]],
        !.plane_state = [p \in Planes |->
            IF p \in m.state.planes THEN m.state.plane_states[p]
            ELSE m.plane_state[p]]]

drm_atomic_helper_swap_state(m) ==
    [m EXCEPT
        !.connector_state = [c \in Connectors |->
            IF c \in m.state.connectors THEN m.state.connector_states[c]
            ELSE m.connector_state[c]],
        !.state.connector_states = [c \in Connectors |->
            IF c \in m.state.connectors THEN m.connector_state[c]
            ELSE m.state.connector_states[c]],
        !.crtc_state = [k \in Crtcs |->
            IF k \in m.state.crtcs THEN m.state.crtc_states[k]
            ELSE m.crtc_state[k]],
        !.state.crtc_states = [k \in Crtcs |->
            IF k \in m.state.crtcs THEN m.crtc_state[k]
            ELSE m.state.crtc_states[k]],
        !.plane_state = [p \in Planes |->
            IF p \in m.state.planes THEN m.state.plane_states[p]
            ELSE m.plane_state[p]],
        !.state.plane_states = [p \in Planes |->
            IF p \in m.state.planes THEN m.plane_state[p]
            ELSE m.state.plane_states[p]]]

\* fence_wait, fence_put, plane->state->fence = NULL for every plane of the transaction
\* fence_wait returns for every fence of the transaction: sig = the planes whose
\* fence has signalled
fences_signalled(m, sig) ==
    \A p \in m.state.planes : m.plane_state[p].fence => p \in sig

wait_for_fences(m) ==
    [m EXCEPT !.plane_state = [p \in Planes |->
        IF p \in m.state.planes /\ m.plane_state[p].fence
        THEN [m.plane_state[p] EXCEPT !.fence = FALSE]
        ELSE m.plane_state[p]]]

\* the legacy links, as a record [connector_encoder, encoder_crtc, crtc_legacy]
ClearLinks(m, l) ==
    LET cleared == {l.connector_encoder[c] :
                       c \in {d \in m.state.connectors : l.connector_encoder[d] # NONE}}
    IN  [l EXCEPT
            !.encoder_crtc = [e \in Encoders |->
                IF e \in cleared THEN NONE ELSE l.encoder_crtc[e]],
            !.connector_encoder = [c \in Connectors |->
                IF c \in m.state.connectors THEN NONE ELSE l.connector_encoder[c]]]

RECURSIVE SetLinks(_, _, _)
SetLinks(m, l, i) ==
    IF i > num_connector THEN l
    ELSE IF i \notin m.state.connectors \/ m.connector_state[i].crtc = NONE
    THEN SetLinks(m, l, i + 1)
    ELSE IF m.connector_state[i].best_encoder = NONE THEN SetLinks(m, l, i + 1)
    ELSE SetLinks(m,
                  [l EXCEPT !.connector_encoder[i] = m.connector_state[i].best_encoder,
                            !.encoder_crtc[m.connector_state[i].best_encoder] =
                                m.connector_state[i].crtc],
                  i + 1)

SetLegacyCrtcs(m, l) ==
    [l EXCEPT !.crtc_legacy = [k \in Crtcs |->
        IF k \in m.state.crtcs
        THEN [mode |-> m.crtc_state[k].mode, enabled |-> m.crtc_state[k].enable]
        ELSE l.crtc_legacy[k]]]

set_routing_links(m, l) == SetLegacyCrtcs(m, SetLinks(m, ClearLinks(m, l), 1))

\* -- disable_outputs: m.state holds the old states, the live states are new --
\* "Right function depends upon target state."
ShutDownEncoder(m, i, e) ==
    IF m.connector_state[i].crtc # NONE THEN Hooked(m, "encoder_prepare", e)
    ELSE IF EncoderHasDisable(e) THEN Hooked(m, "encoder_disable", e)
    ELSE Hooked(m, "encoder_dpms_off", e)

RECURSIVE DisableEncoders(_, _)
DisableEncoders(m, i) ==
    IF i > num_connector THEN m
    ELSE IF i \notin m.state.connectors \/ m.state.connector_states[i].crtc = NONE
    THEN DisableEncoders(m, i + 1)
    ELSE IF m.connector_state[i].best_encoder = NONE THEN DisableEncoders(m, i + 1)
    ELSE DisableEncoders(
            BridgeHook(
                ShutDownEncoder(
                    BridgeHook(m, "bridge_disable", m.connector_state[i].best_encoder),
                    i, m.connector_state[i].best_encoder),
                "bridge_post_disable", m.connector_state[i].best_encoder),
            i + 1)

ShutDownCrtc(m, k) ==
    IF m.crtc_state[k].enable THEN Hooked(m, "crtc_prepare", k)
    ELSE IF CrtcHasDisable(k) THEN Hooked(m, "crtc_disable", k)
    ELSE Hooked(m, "crtc_dpms_off", k)

RECURSIVE DisableCrtcs(_, _)
DisableCrtcs(m, k) ==
    IF k > num_crtc THEN m
    ELSE IF k \notin m.state.crtcs \/ ~m.crtc_state[k].mode_changed
    THEN DisableCrtcs(m, k + 1)
    ELSE DisableCrtcs(ShutDownCrtc(m, k), k + 1)

disable_outputs(m) == DisableCrtcs(DisableEncoders(m, 1), 1)

\* -- crtc_set_mode ----------------------------------------------------------
RECURSIVE SetModeCrtcs(_, _)
SetModeCrtcs(m, k) ==
    IF k > num_crtc THEN m
    ELSE IF k \in m.state.crtcs /\ m.crtc_state[k].mode_changed /\ m.crtc_state[k].enable
    THEN SetModeCrtcs(Hooked(m, "crtc_mode_set_nofb", k), k + 1)
    ELSE SetModeCrtcs(m, k + 1)

\* connector->state->crtc->state dereferences NULL when the new state has an
\* encoder and no crtc
RECURSIVE SetModeEncoders(_, _)
SetModeEncoders(m, i) ==
    IF i > num_connector \/ m.oops THEN m
    ELSE IF i \notin m.state.connectors \/ m.connector_state[i].best_encoder = NONE
    THEN SetModeEncoders(m, i + 1)
    ELSE IF m.connector_state[i].crtc = NONE THEN [m EXCEPT !.oops = TRUE]
    ELSE SetModeEncoders(
            BridgeHook(Hooked(m, "encoder_mode_set", m.connector_state[i].best_encoder),
                       "bridge_mode_set", m.connector_state[i].best_encoder),
            i + 1)

crtc_set_mode(m) == SetModeEncoders(SetModeCrtcs(m, 1), 1)

\* -- drm_atomic_helper_commit_post_planes -----------------------------------
RECURSIVE CommitCrtcs(_, _)
CommitCrtcs(m, k) ==
    IF k > num_crtc THEN m
    ELSE IF k \in m.state.crtcs /\ m.crtc_state[k].mode_changed /\ m.crtc_state[k].enable
    THEN CommitCrtcs(Hooked(m, "crtc_commit", k), k + 1)
    ELSE CommitCrtcs(m, k + 1)

RECURSIVE CommitEncoders(_, _)
CommitEncoders(m, i) ==
    IF i > num_connector THEN m
    ELSE IF i \notin m.state.connectors \/ m.connector_state[i].best_encoder = NONE
    THEN CommitEncoders(m, i + 1)
    ELSE CommitEncoders(
            BridgeHook(
                Hooked(BridgeHook(m, "bridge_pre_enable",
                                  m.connector_state[i].best_encoder),
                       "encoder_commit", m.connector_state[i].best_encoder),
                "bridge_enable", m.connector_state[i].best_encoder),
            i + 1)

\* a variant that enables the encoders before it commits the crtcs
commit_post_planes_encoders_first(m) == CommitCrtcs(CommitEncoders(m, 1), 1)

drm_atomic_helper_commit_post_planes(m) == CommitEncoders(CommitCrtcs(m, 1), 1)

\* crtc_set_mode reads connector->state->crtc->state of every connector of the
\* transaction whose new state has an encoder
crtc_set_mode_oops(m) ==
    \E c \in m.state.connectors :
        m.connector_state[c].best_encoder # NONE /\ m.connector_state[c].crtc = NONE

\* a variant of the first loop that takes a failed drm_crtc_vblank_get for a
\* reference
wait_for_vblanks_ignore_get(m, got) ==
    [m EXCEPT !.state.crtc_states = [k \in Crtcs |->
        IF k \in m.state.crtcs
        THEN [m.state.crtc_states[k] EXCEPT !.enable = m.crtc_state[k].enable]
        ELSE m.state.crtc_states[k]]]

\* first loop of drm_atomic_helper_wait_for_vblanks; got = the crtcs whose
\* drm_crtc_vblank_get succeeds
drm_atomic_helper_wait_for_vblanks(m, got) ==
    [m EXCEPT !.state.crtc_states = [k \in Crtcs |->
        IF k \in m.state.crtcs
        THEN [m.state.crtc_states[k] EXCEPT
                 !.enable = m.crtc_state[k].enable /\ k \in got]
        ELSE m.state.crtc_states[k]]]

\* the drm_crtc_vblank_get calls of the first loop, appended to log
RECURSIVE VblankGets(_, _, _, _)
VblankGets(m, k, got, log) ==
    IF k > num_crtc THEN log
    ELSE IF k \in m.state.crtcs /\ m.crtc_state[k].enable
    THEN VblankGets(m, k + 1, got,
             Append(log, <<"vblank_get", k, NONE, IF k \in got THEN 0 ELSE EINVAL>>))
    ELSE VblankGets(m, k + 1, got, log)

\* second loop of drm_atomic_helper_wait_for_vblanks, on the transaction st the
\* first loop left; late = the crtcs whose vblank does not come within 50 ms, for
\* which wait_event_timeout returns 0
RECURSIVE VblankWaits(_, _, _, _)
VblankWaits(st, k, late, log) ==
    IF k > num_crtc THEN log
    ELSE IF k \in st.crtcs /\ st.crtc_states[k].enable
    THEN VblankWaits(st, k + 1, late,
             log \o << <<"vblank_wait", k, NONE, IF k \in late THEN 0 ELSE 1>>,
                       <<"vblank_put", k, NONE, 0>> >>)
    ELSE VblankWaits(st, k + 1, late, log)

RECURSIVE CleanupFrom(_, _, _)
CleanupFrom(st, i, log) ==
    IF i > num_total_plane THEN log
    ELSE IF i \in st.planes /\ st.plane_states[i].fb # NONE /\ has_cleanup_fb
    THEN CleanupFrom(st, i + 1, Append(log, <<"cleanup_fb", i, st.plane_states[i].fb, 0>>))
    ELSE CleanupFrom(st, i + 1, log)

drm_atomic_helper_cleanup_planes(st, log) == CleanupFrom(st, 1, log)

\* a variant that waits for the fences before it swaps the states
NextPhase_fences_first(p) ==
    CASE p = "prepare_planes" -> "wait_for_fences"
      [] p = "wait_for_fences" -> "swap_state"
      [] p = "swap_state" -> "disable_outputs"
      [] p = "disable_outputs" -> "set_routing_links"
      [] p = "set_routing_links" -> "crtc_set_mode"
      [] p = "crtc_set_mode" -> "commit_planes"
      [] p = "commit_planes" -> "commit_post_planes"
      [] p = "commit_post_planes" -> "wait_for_vblanks"
      [] p = "wait_for_vblanks" -> "cleanup_planes"
      [] p = "cleanup_planes" -> "state_free"
      [] p = "state_free" -> "committed"

\* a variant in which the vblank wait has no timeout and no vblank comes
NextPhase_wait_for_vblank(p) ==
    CASE p = "prepare_planes" -> "swap_state"
      [] p = "swap_state" -> "wait_for_fences"
      [] p = "wait_for_fences" -> "disable_outputs"
      [] p = "disable_outputs" -> "set_routing_links"
      [] p = "set_routing_links" -> "crtc_set_mode"
      [] p = "crtc_set_mode" -> "commit_planes"
      [] p = "commit_planes" -> "commit_post_planes"
      [] p = "commit_post_planes" -> "wait_for_vblanks"
      [] p = "wait_for_vblanks" -> "waiting"
      [] p = "cleanup_planes" -> "state_free"
      [] p = "state_free" -> "committed"

\* the order of the calls in drm_atomic_helper_commit and
\* drm_atomic_helper_commit_pre_planes
NextPhase(p) ==
    CASE p = "prepare_planes" -> "swap_state"
      [] p = "swap_state" -> "wait_for_fences"
      [] p = "wait_for_fences" -> "disable_outputs"
      [] p = "disable_outputs" -> "set_routing_links"
      [] p = "set_routing_links" -> "crtc_set_mode"
      [] p = "crtc_set_mode" -> "commit_planes"
      [] p = "commit_planes" -> "commit_post_planes"
      [] p = "commit_post_planes" -> "wait_for_vblanks"
      [] p = "wait_for_vblanks" -> "cleanup_planes"
      [] p = "cleanup_planes" -> "state_free"
      [] p = "state_free" -> "committed"

\* ---- the device and its caller -----------------------------------------
NoFail == <<"none", 0>>

\* no legacy helper is being called
NoHelper ==
    [name |-> "none", plane |-> NONE, crtc |-> NONE, connector |-> NONE, fb |-> NONE,
     mode |-> 0, connectors |-> {}, async |-> FALSE, allocated |-> FALSE,
     event |-> FALSE]

\* what the callbacks and the lock domain answer during one check
CheckFails ==
    {NoFail} \cup ({"lock_crtc", "crtc_fixup", "crtc_check"} \X Crtcs)
             \cup ({"lock_connector"} \X Connectors)
             \cup ({"bridge_fixup", "encoder_fixup"} \X Encoders)
             \cup ({"plane_check"} \X Planes)

\* best_encoder is asked only for connectors of the transaction that request a crtc
Asked(c) == c \in state.connectors /\ state.connector_states[c].crtc # NONE

CheckEnvs(fails, modes) ==
    {env \in [best_encoder : [Connectors -> 0 .. num_encoder],
              fail : fails, adjusted : modes] :
        \A c \in Connectors : ~Asked(c) => env.best_encoder[c] = NONE}

BuildEnv == [fail |-> NoFail]

Live == [connector_state |-> connector_state, crtc_state |-> crtc_state,
         plane_state |-> plane_state]

\* -- the page-table object (struct i915_hw_ppgtt) --------------------------
\* node: the directory region is reserved in the global address space;
\* pt_pages: the table slots that hold an allocated page; has_dma_array:
\* pt_dma_addr is allocated; pt_dma_addr: the table slots whose page is DMA
\* mapped; tables: the entries; total: pages of the address space; log: the
\* allocator and DMA services the initialisation that just returned called,
\* in order, as <<service, slot>>.
NoPpgtt ==
    [node |-> FALSE, num_pd_entries |-> 0, pt_pages |-> {}, has_dma_array |-> FALSE,
     pt_dma_addr |-> {}, tables |-> << >>, total |-> 0, log |-> << >>,
     ret |-> 0, oops |-> FALSE,
     pd_pages |-> FALSE, num_pd_pages |-> 0, pt_arrays |-> {}, dma_arrays |-> {},
     pd_dma_addr |-> {}]

\* no page-table operation yet
NoOp == [op |-> "none", o |-> 0, prev |-> "none"]

\* no page tables: the state of the display specifications
\* no function under evaluation
NoEval == [fn |-> "none"]

NoGtt ==
    /\ gen = 0
    /\ enable_ppgtt = 0
    /\ ppgtt = NoPpgtt
    /\ gsm = << >>
    /\ obj = << >>
    /\ gpc = "off"
    /\ last = NoOp
    /\ eval = NoEval

InitDisplay(nconn, ncrtc, nenc, nplane) ==
    /\ num_connector = nconn
    /\ num_crtc = ncrtc
    /\ num_encoder = nenc
    /\ num_total_plane = nplane
    /\ connector_state = [c \in 1 .. nconn |-> ResetConnectorState]
    /\ crtc_state = [k \in 1 .. ncrtc |-> ResetCrtcState]
    /\ plane_state = [p \in 1 .. nplane |-> ResetPlaneState]
    /\ connector_encoder = [c \in 1 .. nconn |-> NONE]
    /\ encoder_crtc = [e \in 1 .. nenc |-> NONE]
    /\ crtc_legacy = [k \in 1 .. ncrtc |-> [mode |-> 0, enabled |-> FALSE]]
    /\ plane_fb = [p \in 1 .. nplane |-> NONE]
    /\ state = [connectors |-> {},
                connector_states |-> [c \in 1 .. nconn |-> ResetConnectorState],
                crtcs |-> {}, crtc_states |-> [k \in 1 .. ncrtc |-> ResetCrtcState],
                planes |-> {}, plane_states |-> [p \in 1 .. nplane |-> ResetPlaneState]]
    /\ staged = state
    /\ requested = state
    /\ before = [connector_state |-> connector_state, crtc_state |-> crtc_state,
                 plane_state |-> plane_state]
    /\ pc = "idle"
    /\ ret = 0
    /\ async = FALSE
    /\ calls = << >>
    /\ hooks = << >>
    /\ phases = << >>
    /\ oops = FALSE
    /\ best_encoder = [c \in 1 .. nconn |-> NONE]
    /\ commits = 0
    /\ helper = NoHelper
    /\ contended = FALSE
    /\ retries = 0
    /\ frees = 0
    /\ handed = 0
    /\ signalled = {}

InitDevice(nconn, ncrtc, nenc, nplane) ==
    /\ InitDisplay(nconn, ncrtc, nenc, nplane)
    /\ NoGtt

InitRouting ==
    /\ InitDevice(RoutingConnectors, RoutingCrtcs, RoutingEncoders, 1)
    /\ has_prepare_fb = TRUE
    /\ has_cleanup_fb = TRUE

InitPipeline ==
    /\ InitDevice(PipelineConnectors, PipelineCrtcs, 1, PipelinePlanes)
    /\ has_prepare_fb \in BOOLEAN
    /\ has_cleanup_fb \in BOOLEAN

\* drm_atomic_state_alloc.  State objects are named afresh: the live ones are 0.
\* The record of the framebuffer and vblank calls restarts at log.
StateAllocFrom(limit, log) ==
    /\ pc \in {"idle", "committed"}
    /\ commits < limit
    /\ connector_state' = [c \in Connectors |-> [connector_state[c] EXCEPT !.id = 0]]
    /\ crtc_state' = [k \in Crtcs |-> [crtc_state[k] EXCEPT !.id = 0]]
    /\ plane_state' = [p \in Planes |-> [plane_state[p] EXCEPT !.id = 0]]
    /\ state' = EmptyState
    /\ staged' = EmptyState
    /\ requested' = EmptyState
    /\ before' = [connector_state |-> connector_state', crtc_state |-> crtc_state',
                  plane_state |-> plane_state']
    /\ pc' = "build"
    /\ ret' = 0
    /\ async' = FALSE
    /\ calls' = log
    /\ hooks' = << >>
    /\ phases' = << >>
    /\ best_encoder' = [c \in Connectors |-> NONE]
    /\ signalled' = {}
    /\ UNCHANGED <<devvars, legacyvars, oops, commits>>

StateAlloc(limit) == StateAllocFrom(limit, << >>)

Built(m) ==
    /\ m.ret = 0
    /\ state' = m.state
    /\ state' # state
    /\ UNCHANGED <<fixedvars, livevars, legacyvars, pc, ret, async, calls, hooks, phases,
                   staged, before, oops, commits>>

\* drm_atomic_get_connector_state + drm_atomic_set_crtc_for_connector
SetCrtcForConnector ==
    /\ pc = "build"
    /\ \E c \in Connectors, k \in {NONE} \cup Crtcs :
          LET m1 == drm_atomic_get_connector_state(Mem, c, BuildEnv)
          IN  Built(drm_atomic_set_crtc_for_connector(m1, c, k, BuildEnv))

\* drm_atomic_get_crtc_state + crtc_state->enable = b
SetCrtcEnable ==
    /\ pc = "build"
    /\ \E k \in Crtcs, b \in BOOLEAN :
          LET m1 == drm_atomic_get_crtc_state(Mem, k, BuildEnv)
          IN  Built([m1 EXCEPT !.state.crtc_states[k].enable = b])

\* drm_atomic_get_crtc_state + drm_mode_copy(&crtc_state->mode, mode)
SetCrtcMode ==
    /\ pc = "build"
    /\ \E k \in Crtcs, mode \in Modes :
          LET m1 == drm_atomic_get_crtc_state(Mem, k, BuildEnv)
          IN  Built([m1 EXCEPT !.state.crtc_states[k].mode = mode])

\* drm_atomic_get_crtc_state + crtc_state->event = event
SetCrtcEvent ==
    /\ pc = "build"
    /\ \E k \in Crtcs, event \in BOOLEAN :
          LET m1 == drm_atomic_get_crtc_state(Mem, k, BuildEnv)
          IN  Built([m1 EXCEPT !.state.crtc_states[k].event = event])

\* drm_atomic_get_plane_state + drm_atomic_set_crtc_for_plane +
\* drm_atomic_set_fb_for_plane; a plane has a crtc exactly when it has a framebuffer
SetPlaneTo(fbs, fences) ==
    /\ pc = "build"
    /\ \E p \in Planes, k \in {NONE} \cup Crtcs, fb \in {NONE} \cup fbs, fence \in fences :
          /\ (k = NONE) = (fb = NONE)
          /\ fence => fb # NONE
          /\ LET m1 == drm_atomic_get_plane_state(Mem, p, BuildEnv)
                 m2 == drm_atomic_set_crtc_for_plane(m1, p, k, BuildEnv)
             IN  Built([m2 EXCEPT !.state.plane_states[p].fb = fb,
                                  !.state.plane_states[p].fence = fence])

SetPlane == SetPlaneTo(Fbs, BOOLEAN)

\* what drm_atomic_helper_check leaves behind when it returns memory m
CheckReturns(m, env) ==
    /\ state' = m.state
    /\ connector_state' = m.connector_state
    /\ crtc_state' = m.crtc_state
    /\ plane_state' = m.plane_state
    /\ ret' = m.ret
    /\ oops' = (oops \/ m.oops)
    /\ hooks' = m.hooks
    /\ best_encoder' = env.best_encoder

\* drm_atomic_helper_check on the transaction built so far
CheckWith(envs) ==
    /\ pc = "build"
    /\ \E env \in envs : CheckReturns(drm_atomic_helper_check(Mem, env), env)
    /\ pc' = "checked"
    /\ requested' = state
    /\ UNCHANGED <<devvars, legacyvars, async, calls, phases, staged, before, commits,
                   signalled>>

\* every callback succeeds and leaves the adjusted mode alone; any encoder is answered
CheckRouting == CheckWith(CheckEnvs({NoFail}, {0}))

\* any one callback or lock may fail
Check == CheckWith(CheckEnvs(CheckFails, Modes))

\* the caller frees a transaction that failed check or commit
StateFreeFailed ==
    /\ \/ pc = "checked" /\ ret # 0
       \/ pc = "commit_failed"
    /\ state' = EmptyState
    /\ pc' = "idle"
    /\ UNCHANGED <<fixedvars, livevars, legacyvars, ret, async, calls, hooks, phases, staged,
                   before, oops, commits>>

\* a variant that ignores the async argument
commit_entry_ignore_async(a) == [ret |-> 0, pc |-> "prepare_planes"]

\* entry of drm_atomic_helper_commit: if (async) return -EBUSY
commit_entry(a) ==
    IF a THEN [ret |-> EBUSY, pc |-> "commit_failed"]
    ELSE [ret |-> 0, pc |-> "prepare_planes"]

CommitEntry ==
    /\ pc = "checked"
    /\ ret = 0
    /\ \E a \in BOOLEAN :
          /\ async' = a
          /\ ret' = commit_entry(a).ret
          /\ pc' = commit_entry(a).pc
    /\ staged' = state
    /\ before' = Live
    /\ requested' = EmptyState
    /\ best_encoder' = [c \in Connectors |-> NONE]
    /\ UNCHANGED <<devvars, livevars, legacyvars, state, calls, hooks, phases, oops, commits,
                   signalled>>

PrepareEnvs ==
    [fail : {NoFail} \cup ({"prepare_fb"} \X Planes), err : {ENOMEM, EINVAL}]

\* r is what drm_atomic_helper_prepare_planes returned and the hooks it called
PrepareReturns(r) ==
    /\ calls' = r.calls
    /\ hooks' = hooks
    /\ ret' = r.ret
    /\ pc' = IF r.ret # 0 THEN "commit_failed" ELSE NextPhase(pc)

PreparePlanes ==
    /\ pc = "prepare_planes"
    /\ \E env \in PrepareEnvs :
          /\ env.fail = NoFail => env.err = ENOMEM
          /\ PrepareReturns(drm_atomic_helper_prepare_planes(state, env, calls))
    /\ phases' = Append(phases, pc)
    /\ UNCHANGED <<fixedvars, livevars, legacyvars, state, async, staged, before, oops,
                   commits>>

Phase(name) ==
    /\ pc = name
    /\ pc' = NextPhase(name)
    /\ phases' = Append(phases, name)
    /\ UNCHANGED <<fixedvars, ret, async, staged, before>>

\* the memory after drm_atomic_helper_swap_state
Swapped(m) ==
    /\ state' = m.state
    /\ connector_state' = m.connector_state
    /\ crtc_state' = m.crtc_state
    /\ plane_state' = m.plane_state

SwapState ==
    /\ Phase("swap_state")
    /\ Swapped(drm_atomic_helper_swap_state(Mem))
    /\ UNCHANGED <<legacyvars, calls, hooks, oops, commits>>

\* a fence given to a plane by the transaction signals
FenceSignal ==
    /\ \E p \in Planes \ signalled :
          /\ state.plane_states[p].fence \/ plane_state[p].fence
          /\ signalled' = signalled \cup {p}
    /\ UNCHANGED <<devvars, best_encoder, requested, livevars, legacyvars, state, pc, ret,
                   async, calls, hooks, phases, staged, before, oops, commits>>

WaitForFences ==
    /\ fences_signalled(Mem, signalled)
    /\ Phase("wait_for_fences")
    /\ plane_state' = wait_for_fences(Mem).plane_state
    /\ UNCHANGED <<connector_state, crtc_state, legacyvars, state, calls, hooks, oops, commits>>

DisableOutputs ==
    /\ Phase("disable_outputs")
    /\ hooks' = disable_outputs(Mem).hooks
    /\ UNCHANGED <<livevars, legacyvars, state, calls, oops, commits>>

\* the legacy links after set_routing_links
Linked(l) ==
    /\ connector_encoder' = l.connector_encoder
    /\ encoder_crtc' = l.encoder_crtc
    /\ crtc_legacy' = l.crtc_legacy
    /\ plane_fb' = plane_fb

SetRoutingLinks ==
    /\ Phase("set_routing_links")
    /\ Linked(set_routing_links(Mem, [connector_encoder |-> connector_encoder,
                                      encoder_crtc |-> encoder_crtc,
                                      crtc_legacy |-> crtc_legacy]))
    /\ UNCHANGED <<livevars, state, calls, hooks, oops, commits>>

CrtcSetMode ==
    /\ Phase("crtc_set_mode")
    /\ oops' = (oops \/ crtc_set_mode_oops(Mem))
    /\ hooks' = crtc_set_mode(Mem).hooks
    /\ UNCHANGED <<livevars, legacyvars, state, calls, commits>>

CommitPlanes ==
    /\ Phase("commit_planes")
    /\ UNCHANGED <<livevars, legacyvars, state, calls, hooks, oops, commits>>

CommitPostPlanes ==
    /\ Phase("commit_post_planes")
    /\ hooks' = drm_atomic_helper_commit_post_planes(Mem).hooks
    /\ UNCHANGED <<livevars, legacyvars, state, calls, oops, commits>>

WaitForVblanks ==
    /\ Phase("wait_for_vblanks")
    /\ \E got \in SUBSET Crtcs, late \in SUBSET Crtcs :
          /\ state' = drm_atomic_helper_wait_for_vblanks(Mem, got).state
          /\ calls' = VblankWaits(state', 1, late, VblankGets(Mem, 1, got, calls))
    /\ hooks' = hooks
    /\ UNCHANGED <<livevars, legacyvars, oops, commits>>

CleanupPlanes ==
    /\ Phase("cleanup_planes")
    /\ calls' = drm_atomic_helper_cleanup_planes(state, calls)
    /\ hooks' = hooks
    /\ UNCHANGED <<livevars, legacyvars, state, oops, commits>>

\* drm_atomic_state_free(state); return 0
StateFree ==
    /\ Phase("state_free")
    /\ state' = EmptyState
    /\ commits' = commits + 1
    /\ UNCHANGED <<livevars, legacyvars, calls, hooks, oops>>

Commit ==
    \/ CommitEntry
    \/ PreparePlanes
    \/ SwapState
    \/ WaitForFences
    \/ DisableOutputs
    \/ SetRoutingLinks
    \/ CrtcSetMode
    \/ CommitPlanes
    \/ CommitPostPlanes
    \/ WaitForVblanks
    \/ CleanupPlanes
    \/ StateFree

AllocRouting == StateAlloc(RoutingCommits)

AllocPipeline == StateAlloc(PipelineCommits)

NextRouting ==
    \/ AllocRouting
    \/ SetCrtcForConnector
    \/ SetCrtcEnable
    \/ CheckRouting
    \/ StateFreeFailed
    \/ Commit

NextPipeline ==
    \/ AllocPipeline
    \/ SetCrtcForConnector
    \/ SetCrtcEnable
    \/ SetCrtcMode
    \/ SetPlane
    \/ Check
    \/ StateFreeFailed
    \/ Commit
    \/ FenceSignal

\* a device with several connectors, crtcs and encoders and no staged plane, whose
\* callbacks never fail: transactions are routed, checked and committed in turn
SpecRouting == InitRouting /\ [][NextRouting]_vars

\* a device with one connector, one crtc and several planes, on which any one
\* lock, callback or prepare_fb may fail and a commit may be asked to be async
SpecPipeline == InitPipeline /\ [][NextPipeline]_vars

InitFences ==
    /\ InitDevice(PipelineConnectors, PipelineCrtcs, 1, FencePlanes)
    /\ has_prepare_fb = TRUE
    /\ has_cleanup_fb = TRUE

\* the same caller on a device with fewer planes; the commit keeps running and
\* every fence signals in the end
SpecPipelineFair ==
    /\ InitFences /\ [][NextPipeline]_vars
    /\ WF_vars(Commit)
    /\ WF_vars(FenceSignal)

\* the mode_fixup hooks that may return false during one check
FixupFails ==
    {NoFail} \cup ({"crtc_fixup"} \X Crtcs)
             \cup ({"bridge_fixup", "encoder_fixup"} \X Encoders)

InitFixup ==
    /\ InitDevice(FixupConnectors, FixupCrtcs, FixupEncoders, 1)
    /\ has_prepare_fb = TRUE
    /\ has_cleanup_fb = TRUE

AllocFixup == StateAlloc(FixupCommits)

\* any one mode_fixup hook may return false, and the hooks may rewrite the
\* adjusted mode
CheckFixups == CheckWith(CheckEnvs(FixupFails, Modes))

NextFixup ==
    \/ AllocFixup
    \/ SetCrtcForConnector
    \/ SetCrtcEnable
    \/ SetCrtcMode
    \/ CheckFixups
    \/ StateFreeFailed
    \/ Commit

\* a device with two connectors, crtcs and encoders whose transactions set
\* routing, enable and mode and whose mode_fixup hooks may refuse
SpecFixup == InitFixup /\ [][NextFixup]_vars

InitModeset ==
    /\ InitDevice(ModesetConnectors, ModesetCrtcs, ModesetEncoders, 1)
    /\ has_prepare_fb = TRUE
    /\ has_cleanup_fb = TRUE

AllocModeset == StateAlloc(ModesetCommits)

NextModeset ==
    \/ AllocModeset
    \/ SetCrtcForConnector
    \/ SetCrtcEnable
    \/ SetCrtcMode
    \/ SetCrtcEvent
    \/ CheckRouting
    \/ StateFreeFailed
    \/ Commit

\* a device with callbacks that never fail: transactions that set
\* routing, enable, mode and event are checked and committed one after another
SpecModeset == InitModeset /\ [][NextModeset]_vars

NoOops == ~oops

\* ---- legacy single-object helpers ---------------------------------------
\* A helper is called with the arguments a; env names what the lock domain, the
\* atomic_set_property callback and the commit of the driver answer in one round.

\* crtc->primary
Primary(k) == k

\* drm_atomic_set_fb_for_plane
SetFb(m, p, fb) == [m EXCEPT !.state.plane_states[p].fb = fb]

\* drm_atomic_commit and drm_atomic_async_commit: the check and the commit of the
\* driver answer env.commit; a transaction they take becomes the live state
drm_atomic_commit(m, env) ==
    IF env.commit # 0 THEN Fail(m, env.commit) ELSE drm_atomic_helper_swap_state(m)

\* funcs->atomic_set_property
atomic_set_property(m, env) ==
    IF env.fail[1] = "set_property" THEN Fail(m, env.err) ELSE m

drm_atomic_helper_update_plane(m, a, env) ==
    OnOk(drm_atomic_get_plane_state(m, a.plane, env), LAMBDA x :
    OnOk(drm_atomic_set_crtc_for_plane(x, a.plane, a.crtc, env), LAMBDA y :
    drm_atomic_commit(SetFb(y, a.plane, a.fb), env)))

drm_atomic_helper_disable_plane(m, a, env) ==
    OnOk(drm_atomic_get_plane_state(m, a.plane, env), LAMBDA x :
    OnOk(drm_atomic_set_crtc_for_plane(x, a.plane, NONE, env), LAMBDA y :
    drm_atomic_commit(SetFb(y, a.plane, NONE), env)))

\* First grab all affected connector/crtc states.
RECURSIVE GrabConnectors(_, _, _, _)
GrabConnectors(m, a, c, env) ==
    IF c > num_connector \/ m.ret # 0 THEN m
    ELSE IF c \notin a.connectors THEN GrabConnectors(m, a, c + 1, env)
    ELSE GrabConnectors(drm_atomic_get_connector_state(m, c, env), a, c + 1, env)

RECURSIVE AffectedLoop(_, _, _)
AffectedLoop(m, k, env) ==
    IF k > num_crtc \/ m.ret # 0 THEN m
    ELSE IF k \notin m.state.crtcs THEN AffectedLoop(m, k + 1, env)
    ELSE AffectedLoop(drm_atomic_add_affected_connectors(m, k, env), k + 1, env)

\* a variant that leaves the connectors of set->crtc where they are
Unlink_keep(m, a, c, env) == m

\* if (conn_state->crtc == set->crtc) drm_atomic_set_crtc_for_connector(conn_state, NULL)
Unlink(m, a, c, env) ==
    IF m.state.connector_states[c].crtc = a.crtc
    THEN drm_atomic_set_crtc_for_connector(m, c, NONE, env) ELSE m

\* a connector of the set is linked to set->crtc
Relink(m, a, c, env) ==
    IF c \in a.connectors
    THEN drm_atomic_set_crtc_for_connector(m, c, a.crtc, env) ELSE m

\* Then recompute connector->crtc links
RECURSIVE RelinkLoop(_, _, _, _)
RelinkLoop(m, a, c, env) ==
    IF c > num_connector \/ m.ret # 0 THEN m
    ELSE IF c \notin m.state.connectors THEN RelinkLoop(m, a, c + 1, env)
    ELSE RelinkLoop(OnOk(Unlink(m, a, c, env), LAMBDA x : Relink(x, a, c, env)),
                    a, c + 1, env)

\* and crtc enabling state, of every crtc but set->crtc
EnableOthers(m, a) ==
    [m EXCEPT !.state.crtc_states =
        [k \in Crtcs |->
            IF k \in m.state.crtcs /\ k # a.crtc
            THEN [@[k] EXCEPT !.enable = drm_atomic_connectors_for_crtc(m, k) > 0]
            ELSE @[k]]]

update_output_state(m, a, env) ==
    IF env.fail = <<"connection_mutex", 0>> THEN Fail(m, EDEADLK)
    ELSE OnOk(GrabConnectors(m, a, 1, env), LAMBDA x :
         OnOk(AffectedLoop(x, 1, env), LAMBDA y :
         OnOk(RelinkLoop(y, a, 1, env), LAMBDA z : EnableOthers(z, a))))

\* the primary plane of a set_config with a mode, up to update_output_state
set_config_primary(m, a, env) ==
    OnOk(drm_atomic_get_plane_state(m, Primary(a.crtc), env), LAMBDA y :
    OnOk(drm_atomic_set_crtc_for_plane(y, Primary(a.crtc), a.crtc, env), LAMBDA z :
    update_output_state(SetFb(z, Primary(a.crtc), a.fb), a, env)))

\* drm_atomic_helper_set_config from retry: up to the return of update_output_state
set_config_stage(m, a, env) ==
    OnOk(drm_atomic_get_crtc_state(m, a.crtc, env), LAMBDA x :
        IF a.mode = 0
        THEN update_output_state([x EXCEPT !.state.crtc_states[a.crtc].enable = FALSE],
                                 a, env)
        ELSE set_config_primary(
                 [x EXCEPT !.state.crtc_states[a.crtc].enable = TRUE,
                           !.state.crtc_states[a.crtc].mode = a.mode], a, env))

drm_atomic_helper_set_config(m, a, env) ==
    OnOk(set_config_stage(m, a, env), LAMBDA z : drm_atomic_commit(z, env))

drm_atomic_helper_crtc_set_property(m, a, env) ==
    OnOk(drm_atomic_get_crtc_state(m, a.crtc, env), LAMBDA x :
    OnOk(atomic_set_property(x, env), LAMBDA y : drm_atomic_commit(y, env)))

drm_atomic_helper_plane_set_property(m, a, env) ==
    OnOk(drm_atomic_get_plane_state(m, a.plane, env), LAMBDA x :
    OnOk(atomic_set_property(x, env), LAMBDA y : drm_atomic_commit(y, env)))

drm_atomic_helper_connector_set_property(m, a, env) ==
    OnOk(drm_atomic_get_connector_state(m, a.connector, env), LAMBDA x :
    OnOk(atomic_set_property(x, env), LAMBDA y : drm_atomic_commit(y, env)))

\* drm_atomic_helper_page_flip from retry: up to drm_atomic_set_fb_for_plane
page_flip_stage(m, a, env) ==
    OnOk(drm_atomic_get_crtc_state(m, a.crtc, env), LAMBDA x :
    OnOk(drm_atomic_get_plane_state(
             [x EXCEPT !.state.crtc_states[a.crtc].event = a.event],
             Primary(a.crtc), env), LAMBDA y :
    OnOk(drm_atomic_set_crtc_for_plane(y, Primary(a.crtc), a.crtc, env), LAMBDA z :
    SetFb(z, Primary(a.crtc), a.fb))))

drm_atomic_helper_page_flip(m, a, env) ==
    OnOk(page_flip_stage(m, a, env), LAMBDA z : drm_atomic_commit(z, env))

\* drm_atomic_helper_commit as one call: the entry, then, for a commit that is
\* not asynchronous, drm_atomic_helper_prepare_planes and the swap
drm_atomic_helper_commit(m, a, env) ==
    IF commit_entry(a).ret # 0 THEN Fail(m, commit_entry(a).ret)
    ELSE IF drm_atomic_helper_prepare_planes(m.state, env, << >>).ret # 0
    THEN Fail(m, drm_atomic_helper_prepare_planes(m.state, env, << >>).ret)
    ELSE drm_atomic_helper_swap_state(m)

\* drm_atomic_async_commit of a driver whose atomic_check is
\* drm_atomic_helper_check and whose atomic_commit is drm_atomic_helper_commit:
\* config->funcs->atomic_commit(state->dev, state, true) after the check
drm_atomic_async_commit(m, env) ==
    OnOk(drm_atomic_helper_check(m, env),
         LAMBDA x : drm_atomic_helper_commit(x, TRUE, env))

\* the page flip of that driver
page_flip_async_commit(m, a, env) ==
    OnOk(page_flip_stage(m, a, env), LAMBDA z : drm_atomic_async_commit(z, env))

\* what a helper does from retry: up to the return of the commit
LegacyRound(m, a, env) ==
    CASE a.name = "update_plane" -> drm_atomic_helper_update_plane(m, a, env)
      [] a.name = "disable_plane" -> drm_atomic_helper_disable_plane(m, a, env)
      [] a.name = "set_config" -> drm_atomic_helper_set_config(m, a, env)
      [] a.name = "crtc_set_property" -> drm_atomic_helper_crtc_set_property(m, a, env)
      [] a.name = "plane_set_property" -> drm_atomic_helper_plane_set_property(m, a, env)
      [] a.name = "connector_set_property" ->
             drm_atomic_helper_connector_set_property(m, a, env)
      [] a.name = "page_flip" -> drm_atomic_helper_page_flip(m, a, env)

\* a variant of fail: that hands every error to the caller
legacy_fail_return(r) == "free"

\* a variant of fail: that retries on every error
legacy_fail_retry(r) == "backoff"

\* fail: if (ret == -EDEADLK) goto backoff; else free the transaction and return
legacy_fail(r) == IF r = EDEADLK THEN "backoff" ELSE "free"

\* backoff: drm_atomic_legacy_backoff(state); drm_atomic_state_clear(state)
legacy_backoff(st) == EmptyState

\* if (flags & DRM_MODE_PAGE_FLIP_ASYNC) return -EINVAL
page_flip_entry(a) == IF a.name = "page_flip" /\ a.async THEN EINVAL ELSE 0

LegacyCalls ==
    [name : {"update_plane"}, plane : Planes, crtc : Crtcs, connector : {NONE},
     fb : Fbs, mode : {0}, connectors : {{}}, async : {FALSE}, allocated : {FALSE},
          event : {FALSE}]
    \cup [name : {"disable_plane", "plane_set_property"}, plane : Planes, crtc : {NONE},
          connector : {NONE}, fb : {NONE}, mode : {0}, connectors : {{}},
          async : {FALSE}, allocated : {FALSE},
          event : {FALSE}]
    \cup [name : {"set_config"}, plane : {NONE}, crtc : Crtcs, connector : {NONE},
          fb : Fbs, mode : 1 .. NumModes, connectors : SUBSET Connectors \ {{}},
          async : {FALSE}, allocated : {FALSE},
          event : {FALSE}]
    \cup [name : {"set_config", "crtc_set_property"}, plane : {NONE}, crtc : Crtcs,
          connector : {NONE}, fb : {NONE}, mode : {0}, connectors : {{}},
          async : {FALSE}, allocated : {FALSE},
          event : {FALSE}]
    \cup [name : {"connector_set_property"}, plane : {NONE}, crtc : {NONE},
          connector : Connectors, fb : {NONE}, mode : {0}, connectors : {{}},
          async : {FALSE}, allocated : {FALSE},
          event : {FALSE}]
    \cup [name : {"page_flip"}, plane : {NONE}, crtc : Crtcs, connector : {NONE},
          fb : Fbs, mode : {0}, connectors : {{}}, async : BOOLEAN, allocated : {FALSE},
          event : BOOLEAN]

\* the lock domain signals a deadlock only while it is contended
Deadlocks(env) ==
    \/ env.fail[1] \in {"lock_crtc", "lock_connector", "connection_mutex"}
    \/ env.fail[1] = "set_property" /\ env.err = EDEADLK
    \/ env.commit = EDEADLK

LegacyEnvs ==
    {env \in [fail : {NoFail, <<"connection_mutex", 0>>, <<"set_property", 0>>}
                     \cup ({"lock_crtc"} \X Crtcs) \cup ({"lock_connector"} \X Connectors),
              err : {EINVAL, EDEADLK}, commit : {0, EINVAL, EDEADLK}] :
        Deadlocks(env) => contended}

InitLegacy ==
    /\ InitDevice(LegacyConnectors, LegacyCrtcs, 1, LegacyPlanes)
    /\ has_prepare_fb = TRUE
    /\ has_cleanup_fb = TRUE

\* what a legacy helper leaves alone
callervars == <<num_connector, num_crtc, num_encoder, num_total_plane,
                has_prepare_fb, has_cleanup_fb, connector_encoder, encoder_crtc,
                crtc_legacy, async, calls, hooks, phases,
                requested, staged, before, oops, best_encoder, commits, signalled,
                gttvars>>

\* the entry of a helper: state = drm_atomic_state_alloc(dev)
Entered(a, alloc_ok) ==
    /\ ret' = IF page_flip_entry(a) # 0 THEN page_flip_entry(a)
              ELSE IF alloc_ok THEN 0 ELSE ENOMEM
    /\ helper' = [a EXCEPT !.allocated = ret' = 0]
    /\ pc' = IF ret' = 0 THEN "retry" ELSE "returned"

\* one of the helpers in as is called
Called(as) ==
    /\ pc \in {"idle", "returned"}
    /\ \E a \in as, alloc_ok \in BOOLEAN : Entered(a, alloc_ok)
    /\ contended' \in BOOLEAN
    /\ connector_state' = [c \in Connectors |-> [connector_state[c] EXCEPT !.id = 0]]
    /\ crtc_state' = [k \in Crtcs |-> [crtc_state[k] EXCEPT !.id = 0]]
    /\ plane_state' = [p \in Planes |-> [plane_state[p] EXCEPT !.id = 0]]
    /\ state' = EmptyState
    /\ retries' = 0
    /\ frees' = 0
    /\ handed' = 0
    /\ UNCHANGED <<callervars, plane_fb>>

LegacyCall == Called(LegacyCalls)

\* plane->fb = plane->state->fb, which only the page flip does
patch_plane_fb(r, a) ==
    IF a.name = "page_flip"
    THEN [plane_fb EXCEPT ![Primary(a.crtc)] = r.plane_state[Primary(a.crtc)].fb]
    ELSE plane_fb

\* the round returned r: return 0 when the commit took the transaction, else fail:
RoundReturns(r) ==
    /\ ret' = r.ret
    /\ state' = r.state
    /\ connector_state' = r.connector_state
    /\ crtc_state' = r.crtc_state
    /\ plane_state' = r.plane_state
    /\ handed' = IF r.ret = 0 THEN handed + 1 ELSE handed
    /\ plane_fb' = IF r.ret = 0 THEN patch_plane_fb(r, helper) ELSE plane_fb
    /\ pc' = IF r.ret = 0 THEN "returned" ELSE "fail"

\* retry: the steps of the helper and its commit
LegacyRetry ==
    /\ pc = "retry"
    /\ \E env \in LegacyEnvs : RoundReturns(LegacyRound(Mem, helper, env))
    /\ UNCHANGED <<callervars, helper, contended, retries, frees>>

\* a variant of fail: that returns the error without freeing the transaction
LegacyFail_leak ==
    /\ pc = "fail"
    /\ pc' = IF legacy_fail(ret) = "backoff" THEN "backoff" ELSE "returned"
    /\ UNCHANGED <<callervars, plane_fb, livevars, helper, contended, retries, handed, ret,
                   frees, state>>

\* fail:
LegacyFail ==
    /\ pc = "fail"
    /\ pc' = IF legacy_fail(ret) = "backoff" THEN "backoff" ELSE "returned"
    /\ frees' = IF legacy_fail(ret) = "backoff" THEN frees ELSE frees + 1
    /\ state' = IF legacy_fail(ret) = "backoff" THEN state ELSE EmptyState
    /\ UNCHANGED <<callervars, plane_fb, livevars, helper, contended, retries, handed, ret>>

\* backoff:
LegacyBackoff ==
    /\ pc = "backoff"
    /\ state' = legacy_backoff(state)
    /\ retries' = IF retries < MaxRetries THEN retries + 1 ELSE retries
    /\ pc' = "retry"
    /\ UNCHANGED <<callervars, plane_fb, livevars, helper, contended, frees, handed, ret>>

\* the other holders of the locks let go of them
LockFreed ==
    /\ contended
    /\ pc \in {"retry", "fail", "backoff"}
    /\ contended' = FALSE
    /\ UNCHANGED <<callervars, plane_fb, livevars, helper, retries, frees, handed, ret, pc, state>>

NextLegacy ==
    \/ LegacyCall
    \/ LegacyRetry
    \/ LegacyFail
    \/ LegacyBackoff
    \/ LockFreed

\* the legacy helpers called one after the other on a device with one crtc
SpecLegacy == InitLegacy /\ [][NextLegacy]_vars

\* the helper keeps running, and the lock domain stops signalling deadlocks in the end
SpecLegacyFair ==
    /\ SpecLegacy
    /\ WF_vars(LegacyRetry)
    /\ WF_vars(LegacyFail)
    /\ WF_vars(LegacyBackoff)
    /\ WF_vars(LockFreed)

\* -- page flips of a driver that commits with drm_atomic_helper_commit --
FlipCalls == {a \in LegacyCalls : a.name = "page_flip"}

\* what the locks, the checks of the driver and prepare_fb answer in one round
FlipEnvs ==
    {env \in [fail : {NoFail} \cup ({"lock_crtc", "crtc_check"} \X Crtcs)
                            \cup ({"plane_check", "prepare_fb"} \X Planes),
              best_encoder : [Connectors -> {NONE}], adjusted : {0},
              err : {ENOMEM}, commit : {0}] :
        Deadlocks(env) => contended}

\* every crtc has its primary plane
InitFlip ==
    /\ InitDevice(1, FlipCrtcs, 1, FlipCrtcs)
    /\ has_prepare_fb = TRUE
    /\ has_cleanup_fb = TRUE

FlipCall == Called(FlipCalls)

\* retry: the steps of the page flip and its asynchronous commit
FlipRetry ==
    /\ pc = "retry"
    /\ \E env \in FlipEnvs : RoundReturns(page_flip_async_commit(Mem, helper, env))
    /\ UNCHANGED <<callervars, helper, contended, retries, frees>>

NextFlip ==
    \/ FlipCall
    \/ FlipRetry
    \/ LegacyFail
    \/ LegacyBackoff
    \/ LockFreed

\* page flips called one after the other on a driver whose commit entry point is
\* drm_atomic_helper_commit
SpecFlip == InitFlip /\ [][NextFlip]_vars

\* ---- GPU page tables (i915_gem_gtt.c) ------------------------------------
\* Addresses are page frame numbers (the address shifted right by PAGE_SHIFT).
\* A page-table entry is kept as its two bit fields: frame holds the bits
\* from bit 12 upwards, low the 12 bits below.
Least(a, b) == IF a < b THEN a ELSE b

Pte(frame, low) == [frame |-> frame, low |-> low]

CacheLevels == {"NONE", "LLC", "L3_LLC", "WT"}

\* bits 32..39 of the address go to bits 4..11 of a 32 bit entry; the entry
\* keeps bits 12..31
GEN6_PTE_ADDR_ENCODE(pfn) ==
    Pte(pfn % Gen6Frames, ((pfn \div Gen6Frames) % GEN6_PTE_HIGH) * 16)

\* variant: the default case falls back to uncached
snb_cache_bits_uncached(level) ==
    CASE level \in {"L3_LLC", "LLC"} -> GEN6_PTE_CACHE_LLC
      [] OTHER -> GEN6_PTE_UNCACHED

snb_cache_bits(level) ==
    CASE level \in {"L3_LLC", "LLC"} -> GEN6_PTE_CACHE_LLC
      [] level = "NONE" -> GEN6_PTE_UNCACHED
      [] OTHER -> 0

snb_pte_encode(pfn, level, valid, flags) ==
    Pte(GEN6_PTE_ADDR_ENCODE(pfn).frame,
        (IF valid THEN GEN6_PTE_VALID ELSE 0) + GEN6_PTE_ADDR_ENCODE(pfn).low
            + snb_cache_bits(level))

\* WARN_ON(1) of the default case
snb_warns(level) == level \notin {"L3_LLC", "LLC", "NONE"}

ivb_cache_bits(level) ==
    CASE level = "L3_LLC" -> GEN7_PTE_CACHE_L3_LLC
      [] level = "LLC" -> GEN6_PTE_CACHE_LLC
      [] level = "NONE" -> GEN6_PTE_UNCACHED
      [] OTHER -> 0

ivb_pte_encode(pfn, level, valid, flags) ==
    Pte(GEN6_PTE_ADDR_ENCODE(pfn).frame,
        (IF valid THEN GEN6_PTE_VALID ELSE 0) + GEN6_PTE_ADDR_ENCODE(pfn).low
            + ivb_cache_bits(level))

ivb_warns(level) == level \notin {"L3_LLC", "LLC", "NONE"}

byt_pte_encode(pfn, level, valid, flags) ==
    Pte(GEN6_PTE_ADDR_ENCODE(pfn).frame,
        (IF valid THEN GEN6_PTE_VALID ELSE 0) + GEN6_PTE_ADDR_ENCODE(pfn).low
            + (IF (flags \div PTE_READ_ONLY) % 2 = 0 THEN BYT_PTE_WRITEABLE ELSE 0)
            + (IF level # "NONE" THEN BYT_PTE_SNOOPED_BY_CPU_CACHES ELSE 0))

\* bits 32..38 of the address go to bits 4..10 of the entry
HSW_PTE_ADDR_ENCODE(pfn) ==
    Pte(pfn % Gen6Frames, ((pfn \div Gen6Frames) % HSW_PTE_HIGH) * 16)

hsw_pte_encode(pfn, level, valid, flags) ==
    Pte(HSW_PTE_ADDR_ENCODE(pfn).frame,
        (IF valid THEN GEN6_PTE_VALID ELSE 0) + HSW_PTE_ADDR_ENCODE(pfn).low
            + (IF level # "NONE" THEN HSW_WB_LLC_AGE3 ELSE 0))

iris_cache_bits(level) ==
    CASE level = "NONE" -> 0
      [] level = "WT" -> HSW_WT_ELLC_LLC_AGE3
      [] OTHER -> HSW_WB_ELLC_LLC_AGE3

iris_pte_encode(pfn, level, valid, flags) ==
    Pte(HSW_PTE_ADDR_ENCODE(pfn).frame,
        (IF valid THEN GEN6_PTE_VALID ELSE 0) + HSW_PTE_ADDR_ENCODE(pfn).low
            + iris_cache_bits(level))

gen8_ppat(level) ==
    CASE level = "NONE" -> PPAT_UNCACHED_INDEX
      [] level = "WT" -> PPAT_DISPLAY_ELLC_INDEX
      [] OTHER -> PPAT_CACHED_INDEX

gen8_pte_encode(pfn, level, valid) ==
    Pte(pfn, (IF valid THEN PAGE_PRESENT + PAGE_RW ELSE 0) + gen8_ppat(level))

\* the encoders, by the name of the platform they are installed for
PteEncoders == {"snb", "ivb", "byt", "hsw", "iris", "gen8"}

pte_encode(encoder, pfn, level, valid, flags) ==
    CASE encoder = "snb" -> snb_pte_encode(pfn, level, valid, flags)
      [] encoder = "ivb" -> ivb_pte_encode(pfn, level, valid, flags)
      [] encoder = "byt" -> byt_pte_encode(pfn, level, valid, flags)
      [] encoder = "hsw" -> hsw_pte_encode(pfn, level, valid, flags)
      [] encoder = "iris" -> iris_pte_encode(pfn, level, valid, flags)
      [] encoder = "gen8" -> gen8_pte_encode(pfn, level, valid)

pte_warns(encoder, level) ==
    CASE encoder = "snb" -> snb_warns(level)
      [] encoder = "ivb" -> ivb_warns(level)
      [] OTHER -> FALSE

\* -- 2-level tables: pt_pages[act_pt][entry] -------------------------------
Gen6Fill(table, first_pte, last_pte, pte) ==
    [i \in DOMAIN table |-> IF first_pte <= i /\ i < last_pte THEN pte ELSE table[i]]

RECURSIVE Gen6ClearLoop(_, _, _, _, _)
Gen6ClearLoop(pt, act_pt, first_pte, num_entries, scratch_pte) ==
    IF num_entries = 0 THEN pt
    ELSE Gen6ClearLoop(
            [pt EXCEPT ![act_pt] =
                Gen6Fill(@, first_pte,
                         Least(first_pte + num_entries, I915_PPGTT_PT_ENTRIES),
                         scratch_pte)],
            act_pt + 1, 0,
            num_entries
                - (Least(first_pte + num_entries, I915_PPGTT_PT_ENTRIES) - first_pte),
            scratch_pte)

\* variant: the range is not carried over into the next page table
gen6_ppgtt_clear_first_table(pt, start, length, use_scratch) ==
    [pt EXCEPT ![start \div I915_PPGTT_PT_ENTRIES] =
        Gen6Fill(@, start % I915_PPGTT_PT_ENTRIES,
                 Least((start % I915_PPGTT_PT_ENTRIES) + length, I915_PPGTT_PT_ENTRIES),
                 snb_pte_encode(ScratchPage, "LLC", TRUE, 0))]

\* start and length count pages: first_entry = start >> PAGE_SHIFT
gen6_ppgtt_clear_range(pt, start, length, use_scratch) ==
    Gen6ClearLoop(pt, start \div I915_PPGTT_PT_ENTRIES,
                  start % I915_PPGTT_PT_ENTRIES, length,
                  snb_pte_encode(ScratchPage, "LLC", TRUE, 0))

RECURSIVE Gen6InsertLoop(_, _, _, _, _, _, _)
Gen6InsertLoop(pt, pages, i, act_pt, act_pte, cache_level, flags) ==
    IF i > Len(pages) THEN pt
    ELSE Gen6InsertLoop(
            [pt EXCEPT ![act_pt][act_pte] =
                snb_pte_encode(pages[i], cache_level, TRUE, flags)],
            pages, i + 1,
            IF act_pte + 1 = I915_PPGTT_PT_ENTRIES THEN act_pt + 1 ELSE act_pt,
            IF act_pte + 1 = I915_PPGTT_PT_ENTRIES THEN 0 ELSE act_pte + 1,
            cache_level, flags)

\* variant: the first page goes to the entry after start
gen6_ppgtt_insert_after(pt, pages, start, cache_level, flags) ==
    Gen6InsertLoop(pt, pages, 1, (start + 1) \div I915_PPGTT_PT_ENTRIES,
                   (start + 1) % I915_PPGTT_PT_ENTRIES, cache_level, flags)

\* variant: the pages that do not fit the first page table are dropped
gen6_ppgtt_insert_first_table(pt, pages, start, cache_level, flags) ==
    Gen6InsertLoop(pt,
                   SubSeq(pages, 1,
                          Least(Len(pages),
                                I915_PPGTT_PT_ENTRIES - (start % I915_PPGTT_PT_ENTRIES))),
                   1, start \div I915_PPGTT_PT_ENTRIES,
                   start % I915_PPGTT_PT_ENTRIES, cache_level, flags)

gen6_ppgtt_insert_entries(pt, pages, start, cache_level, flags) ==
    Gen6InsertLoop(pt, pages, 1, start \div I915_PPGTT_PT_ENTRIES,
                   start % I915_PPGTT_PT_ENTRIES, cache_level, flags)

\* -- multi-level tables: gen8_pt_pages[pdpe][pde][entry] -------------------
Gen8Pdpe(start) ==
    (start \div (GEN8_PTES_PER_PAGE * GEN8_PDES_PER_PAGE)) % GEN8_LEGACY_PDPS

Gen8Pde(start) == (start \div GEN8_PTES_PER_PAGE) % GEN8_PDES_PER_PAGE

Gen8Pte(start) == start % GEN8_PTES_PER_PAGE

RECURSIVE Gen8ClearLoop(_, _, _, _, _, _)
Gen8ClearLoop(pt, pdpe, pde, pte, num_entries, scratch_pte) ==
    IF num_entries = 0 THEN pt
    ELSE Gen8ClearLoop(
            [pt EXCEPT ![pdpe][pde] =
                Gen6Fill(@, pte, Least(pte + num_entries, GEN8_PTES_PER_PAGE),
                         scratch_pte)],
            IF pde + 1 = GEN8_PDES_PER_PAGE THEN pdpe + 1 ELSE pdpe,
            IF pde + 1 = GEN8_PDES_PER_PAGE THEN 0 ELSE pde + 1,
            0,
            num_entries - (Least(pte + num_entries, GEN8_PTES_PER_PAGE) - pte),
            scratch_pte)

gen8_ppgtt_clear_range(pt, start, length, use_scratch) ==
    Gen8ClearLoop(pt, Gen8Pdpe(start), Gen8Pde(start), Gen8Pte(start), length,
                  gen8_pte_encode(ScratchPage, "LLC", use_scratch))

RECURSIVE Gen8InsertLoop(_, _, _, _, _, _, _)
Gen8InsertLoop(pt, pages, i, pdpe, pde, pte, cache_level) ==
    IF i > Len(pages) \/ pdpe >= GEN8_LEGACY_PDPS THEN pt
    ELSE Gen8InsertLoop(
            [pt EXCEPT ![pdpe][pde][pte] =
                gen8_pte_encode(pages[i], cache_level, TRUE)],
            pages, i + 1,
            IF pte + 1 = GEN8_PTES_PER_PAGE /\ pde + 1 = GEN8_PDES_PER_PAGE
            THEN pdpe + 1 ELSE pdpe,
            IF pte + 1 # GEN8_PTES_PER_PAGE THEN pde
            ELSE IF pde + 1 = GEN8_PDES_PER_PAGE THEN 0 ELSE pde + 1,
            IF pte + 1 = GEN8_PTES_PER_PAGE THEN 0 ELSE pte + 1,
            cache_level)

gen8_ppgtt_insert_entries(pt, pages, start, cache_level, flags) ==
    Gen8InsertLoop(pt, pages, 1, Gen8Pdpe(start), Gen8Pde(start), Gen8Pte(start),
                   cache_level)

Logged(p, service, i) == [p EXCEPT !.log = Append(@, <<service, i>>)]

\* what an allocated, not yet written table page may hold
Garbage == {Pte(0, 0), Pte(5, GEN6_PTE_VALID)}

\* the directories and table slots an initialisation can reach
\* the reservations of the directory region the model follows
MaxInserts == 4

InitDirs == IF gen < 8 THEN 1 ELSE GEN8_LEGACY_PDPS
InitSlots == IF gen < 8 THEN GEN6_PPGTT_PD_ENTRIES ELSE MaxPdp * GEN8_PDES_PER_PAGE

InitEnvs ==
    [insert : {<<0>>, <<ENOSPC, 0>>, <<ENOSPC, ENOSPC, 0>>, <<ENOSPC, ENOSPC, ENOSPC>>,
               <<ENOMEM>>},
     evict : {0, ENOSPC},
     fail : {<<"none", 0>>, <<"pd_pages", 0>>}
            \cup ({"pt_pages", "pt_dma_addr", "map_pd"} \X (0 .. InitDirs - 1))
            \cup ({"alloc_page", "pci_map_page"} \X (0 .. InitSlots - 1)),
     garbage : Garbage]

RECURSIVE Gen6UnmapLoop(_, _, _)
Gen6UnmapLoop(p, i, n) ==
    IF i >= n THEN p
    ELSE Gen6UnmapLoop(
            [Logged(p, "pci_unmap_page", i) EXCEPT !.pt_dma_addr = @ \ {i}], i + 1, n)

gen6_ppgtt_unmap_pages(p) ==
    IF p.has_dma_array THEN Gen6UnmapLoop(p, 0, p.num_pd_entries) ELSE p

\* __free_page on a slot that holds no page dereferences NULL
RECURSIVE Gen6FreeLoop(_, _)
Gen6FreeLoop(p, i) ==
    IF i >= p.num_pd_entries THEN p
    ELSE IF i \notin p.pt_pages THEN [Logged(p, "__free_page", i) EXCEPT !.oops = TRUE]
    ELSE Gen6FreeLoop([Logged(p, "__free_page", i) EXCEPT !.pt_pages = @ \ {i}], i + 1)

gen6_ppgtt_free(p) == Gen6FreeLoop([p EXCEPT !.has_dma_array = FALSE], 0)

drm_mm_remove_node(p) == [Logged(p, "drm_mm_remove_node", 0) EXCEPT !.node = FALSE]

Gen6InsertNode(p, r) ==
    [Logged(p, "drm_mm_insert_node", r) EXCEPT !.node = (r = 0), !.ret = r]

\* a variant that evicts after every lack of space
MayEvict_always(r, retried) == r = ENOSPC

\* if (ret == -ENOSPC && !retried)
MayEvict(r, retried) == r = ENOSPC /\ ~retried

\* what the i-th call of drm_mm_insert_node_in_range_generic returns
InsertAnswer(env, i) == IF i <= Len(env.insert) THEN env.insert[i] ELSE ENOSPC

\* alloc: of gen6_ppgtt_allocate_page_directories, at the i-th reservation
RECURSIVE Gen6AllocNode(_, _, _, _)
Gen6AllocNode(p, i, retried, env) ==
    IF MayEvict(InsertAnswer(env, i), retried) /\ i <= MaxInserts
    THEN IF env.evict # 0
         THEN [Logged(Gen6InsertNode(p, InsertAnswer(env, i)),
                      "i915_gem_evict_something", env.evict)
                  EXCEPT !.ret = env.evict]
         ELSE Gen6AllocNode(
                  Logged(Gen6InsertNode(p, InsertAnswer(env, i)),
                         "i915_gem_evict_something", 0),
                  i + 1, TRUE, env)
    ELSE [Gen6InsertNode(p, InsertAnswer(env, i))
             EXCEPT !.num_pd_entries = GEN6_PPGTT_PD_ENTRIES]

gen6_ppgtt_allocate_page_directories(p, env) == Gen6AllocNode(p, 1, FALSE, env)

RECURSIVE Gen6AllocLoop(_, _, _)
Gen6AllocLoop(p, i, env) ==
    IF i >= p.num_pd_entries THEN p
    ELSE IF env.fail = <<"alloc_page", i>>
    THEN [gen6_ppgtt_free(p) EXCEPT !.ret = ENOMEM]
    ELSE Gen6AllocLoop(
            [Logged(p, "alloc_page", i) EXCEPT !.pt_pages = @ \cup {i}], i + 1, env)

gen6_ppgtt_allocate_page_tables(p, env) ==
    IF env.fail[1] = "pt_pages" THEN [p EXCEPT !.ret = ENOMEM]
    ELSE Gen6AllocLoop(p, 0, env)

Gen6AllocDma(p, env) ==
    IF p.ret # 0 THEN drm_mm_remove_node(p)
    ELSE IF env.fail[1] = "pt_dma_addr"
    THEN [gen6_ppgtt_free(drm_mm_remove_node(p)) EXCEPT !.ret = ENOMEM]
    ELSE [p EXCEPT !.has_dma_array = TRUE]

gen6_ppgtt_alloc(p, env) ==
    OnOk(gen6_ppgtt_allocate_page_directories(p, env),
         LAMBDA x : Gen6AllocDma(gen6_ppgtt_allocate_page_tables(x, env), env))

RECURSIVE Gen6MapLoop(_, _, _)
Gen6MapLoop(p, i, env) ==
    IF i >= p.num_pd_entries THEN p
    ELSE IF env.fail = <<"pci_map_page", i>>
    THEN [gen6_ppgtt_unmap_pages(p) EXCEPT !.ret = EIO]
    ELSE Gen6MapLoop(
            [Logged(p, "pci_map_page", i) EXCEPT !.pt_dma_addr = @ \cup {i}], i + 1, env)

gen6_ppgtt_setup_page_tables(p, env) == Gen6MapLoop(p, 0, env)

Gen6ReadyUncleared(p, env) ==
    IF p.ret # 0 THEN gen6_ppgtt_free(p)
    ELSE [p EXCEPT
            !.total = p.num_pd_entries * I915_PPGTT_PT_ENTRIES,
            !.tables =
                [t \in 0 .. p.num_pd_entries - 1 |->
                    [i \in 0 .. I915_PPGTT_PT_ENTRIES - 1 |-> env.garbage]]]

Gen6Ready(p, env) ==
    IF p.ret # 0 THEN gen6_ppgtt_free(p)
    ELSE [p EXCEPT
            !.total = p.num_pd_entries * I915_PPGTT_PT_ENTRIES,
            !.tables =
                gen6_ppgtt_clear_range(
                    [t \in 0 .. p.num_pd_entries - 1 |->
                        [i \in 0 .. I915_PPGTT_PT_ENTRIES - 1 |-> env.garbage]],
                    0, p.num_pd_entries * I915_PPGTT_PT_ENTRIES, TRUE)]

gen6_ppgtt_init(p, env) ==
    OnOk(gen6_ppgtt_alloc(p, env),
         LAMBDA x : Gen6Ready(gen6_ppgtt_setup_page_tables(x, env), env))

\* -- multi-level (gen8) initialisation --------------------------------------
\* pd_pages: the directory block is allocated; num_pd_pages: its pages;
\* pt_arrays / dma_arrays: the directories whose gen8_pt_pages[i] /
\* gen8_pt_dma_addr[i] pointer is set; pd_dma_addr: the directories that hold
\* a DMA address; pt_pages and pt_dma_addr hold table slots Gen8Slot(i, j).
\* Nothing clears a pointer after the free, as in the code.
Gen8Slot(i, j) == i * GEN8_PDES_PER_PAGE + j

\* 1 << get_order(max_pdp << PAGE_SHIFT)
RECURSIVE Gen8Order(_, _)
Gen8Order(n, pages) == IF pages >= n THEN pages ELSE Gen8Order(n, 2 * pages)

\* kfree(NULL) does nothing
Kfree(p, present, service, i) == IF present THEN Logged(p, service, i) ELSE p

RECURSIVE Gen8FreeTables(_, _, _)
Gen8FreeTables(p, i, j) ==
    IF i \notin p.pt_arrays \/ j >= GEN8_PDES_PER_PAGE THEN p
    ELSE Gen8FreeTables(
            Kfree(p, Gen8Slot(i, j) \in p.pt_pages, "__free_page", Gen8Slot(i, j)),
            i, j + 1)

gen8_free_page_tables(p, i) == Gen8FreeTables(p, i, 0)

RECURSIVE Gen8FreeLoop(_, _)
Gen8FreeLoop(p, i) ==
    IF i >= p.num_pd_pages THEN p
    ELSE Gen8FreeLoop(
            Kfree(Kfree(gen8_free_page_tables(p, i),
                        i \in p.pt_arrays, "kfree_pt_pages", i),
                  i \in p.dma_arrays, "kfree_pt_dma_addr", i),
            i + 1)

gen8_ppgtt_free(p) == Logged(Gen8FreeLoop(p, 0), "__free_pages", 0)

RECURSIVE Gen8UnmapTables(_, _, _)
Gen8UnmapTables(p, i, j) ==
    IF j >= GEN8_PDES_PER_PAGE THEN p
    ELSE Gen8UnmapTables(
            Kfree(p, Gen8Slot(i, j) \in p.pt_dma_addr, "pci_unmap_page", Gen8Slot(i, j)),
            i, j + 1)

\* a directory without a DMA address is skipped together with its tables
RECURSIVE Gen8UnmapLoop(_, _)
Gen8UnmapLoop(p, i) ==
    IF i >= p.num_pd_pages THEN p
    ELSE Gen8UnmapLoop(
            IF i \notin p.pd_dma_addr THEN p
            ELSE Gen8UnmapTables(Logged(p, "pci_unmap_pd", i), i, 0),
            i + 1)

\* variant: every directory is unmapped, mapped or not
RECURSIVE Gen8UnmapAll(_, _)
Gen8UnmapAll(p, i) ==
    IF i >= p.num_pd_pages THEN p
    ELSE Gen8UnmapAll(Gen8UnmapTables(Logged(p, "pci_unmap_pd", i), i, 0), i + 1)

gen8_ppgtt_unmap_all_pages(p) == Gen8UnmapAll(p, 0)

gen8_ppgtt_unmap_pages(p) == Gen8UnmapLoop(p, 0)

\* the local array of a failed allocation is gone with the call
Gen8Forget(p, i) ==
    [p EXCEPT !.pt_arrays = @ \ {i},
              !.pt_pages = @ \ {Gen8Slot(i, j) : j \in 0 .. GEN8_PDES_PER_PAGE - 1}]

Gen8Bail(p, i) ==
    Gen8Forget(Kfree(gen8_free_page_tables(p, i), TRUE, "kfree_pt_pages", i), i)

RECURSIVE Gen8AllocTables(_, _, _, _)
Gen8AllocTables(p, i, j, env) ==
    IF j >= GEN8_PDES_PER_PAGE THEN p
    ELSE IF env.fail = <<"alloc_page", Gen8Slot(i, j)>>
    THEN [Gen8Bail(p, i) EXCEPT !.ret = ENOMEM]
    ELSE Gen8AllocTables(
            [Logged(p, "alloc_page", Gen8Slot(i, j))
                EXCEPT !.pt_pages = @ \cup {Gen8Slot(i, j)}],
            i, j + 1, env)

__gen8_alloc_page_tables(p, i, env) ==
    IF env.fail = <<"pt_pages", i>> THEN [p EXCEPT !.ret = ENOMEM]
    ELSE Gen8AllocTables(
            [Logged(p, "kcalloc_pt_pages", i) EXCEPT !.pt_arrays = @ \cup {i}],
            i, 0, env)

\* unwind_out: while (i--)
RECURSIVE Gen8Unwind(_, _)
Gen8Unwind(p, i) == IF i <= 0 THEN p ELSE Gen8Unwind(Gen8Bail(p, i - 1), i - 1)

RECURSIVE Gen8AllocDirs(_, _, _, _)
Gen8AllocDirs(p, i, max_pdp, env) ==
    IF p.ret # 0 THEN Gen8Unwind(p, i - 1)
    ELSE IF i >= max_pdp THEN p
    ELSE Gen8AllocDirs(__gen8_alloc_page_tables(p, i, env), i + 1, max_pdp, env)

gen8_ppgtt_allocate_page_tables(p, max_pdp, env) == Gen8AllocDirs(p, 0, max_pdp, env)

RECURSIVE Gen8AllocDma(_, _, _)
Gen8AllocDma(p, i, env) ==
    IF i >= p.num_pd_pages THEN p
    ELSE IF env.fail = <<"pt_dma_addr", i>> THEN [p EXCEPT !.ret = ENOMEM]
    ELSE Gen8AllocDma(
            [Logged(p, "kcalloc_pt_dma_addr", i) EXCEPT !.dma_arrays = @ \cup {i}],
            i + 1, env)

gen8_ppgtt_allocate_dma(p, env) == Gen8AllocDma(p, 0, env)

gen8_ppgtt_allocate_page_directories(p, max_pdp, env) ==
    IF env.fail[1] = "pd_pages" THEN [p EXCEPT !.ret = ENOMEM]
    ELSE [Logged(p, "alloc_pages", 0)
             EXCEPT !.pd_pages = TRUE, !.num_pd_pages = Gen8Order(max_pdp, 1)]

Gen8AfterDma(p) == IF p.ret # 0 THEN gen8_ppgtt_free(p) ELSE p

Gen8AfterTables(p, max_pdp, env) ==
    IF p.ret # 0 THEN Logged(p, "__free_pages", 0)
    ELSE Gen8AfterDma(
            gen8_ppgtt_allocate_dma(
                [p EXCEPT !.num_pd_entries = max_pdp * GEN8_PDES_PER_PAGE], env))

gen8_ppgtt_alloc(p, max_pdp, env) ==
    OnOk(gen8_ppgtt_allocate_page_directories(p, max_pdp, env),
         LAMBDA x : Gen8AfterTables(gen8_ppgtt_allocate_page_tables(x, max_pdp, env),
                                    max_pdp, env))

\* a failed mapping stores no address
gen8_ppgtt_setup_page_directories(p, i, env) ==
    IF env.fail = <<"map_pd", i>> THEN [p EXCEPT !.ret = EIO]
    ELSE [Logged(p, "pci_map_pd", i) EXCEPT !.pd_dma_addr = @ \cup {i}]

gen8_ppgtt_setup_page_tables(p, i, j, env) ==
    IF env.fail = <<"pci_map_page", Gen8Slot(i, j)>> THEN [p EXCEPT !.ret = EIO]
    ELSE [Logged(p, "pci_map_page", Gen8Slot(i, j))
             EXCEPT !.pt_dma_addr = @ \cup {Gen8Slot(i, j)}]

RECURSIVE Gen8MapTables(_, _, _, _)
Gen8MapTables(p, i, j, env) ==
    IF p.ret # 0 \/ j >= GEN8_PDES_PER_PAGE THEN p
    ELSE Gen8MapTables(gen8_ppgtt_setup_page_tables(p, i, j, env), i, j + 1, env)

RECURSIVE Gen8MapLoop(_, _, _, _)
Gen8MapLoop(p, i, max_pdp, env) ==
    IF p.ret # 0 \/ i >= max_pdp THEN p
    ELSE Gen8MapLoop(
            Gen8MapTables(gen8_ppgtt_setup_page_directories(p, i, env), i, 0, env),
            i + 1, max_pdp, env)

\* bail: unmap, then free
Gen8Ready(p, max_pdp, env) ==
    IF p.ret # 0 THEN gen8_ppgtt_free(gen8_ppgtt_unmap_pages(p))
    ELSE [p EXCEPT
            !.total = max_pdp * GEN8_PDES_PER_PAGE * GEN8_PTES_PER_PAGE,
            !.tables =
                gen8_ppgtt_clear_range(
                    [d \in 0 .. max_pdp - 1 |->
                        [t \in 0 .. GEN8_PDES_PER_PAGE - 1 |->
                            [i \in 0 .. GEN8_PTES_PER_PAGE - 1 |-> env.garbage]]],
                    0, max_pdp * GEN8_PDES_PER_PAGE * GEN8_PTES_PER_PAGE, TRUE)]

gen8_ppgtt_init(p, max_pdp, env) ==
    OnOk(gen8_ppgtt_alloc(p, max_pdp, env),
         LAMBDA x : Gen8Ready(Gen8MapLoop(x, 0, max_pdp, env), max_pdp, env))

hw_ppgtt_init(p, env) ==
    IF gen < 8 THEN gen6_ppgtt_init(p, env) ELSE gen8_ppgtt_init(p, MaxPdp, env)

\* -- the global table: gsm[entry] ------------------------------------------
GttFill(gs, first, num, pte) ==
    [i \in DOMAIN gs |-> IF first <= i /\ i < first + num THEN pte ELSE gs[i]]

GttWrite(gs, first, ptes) ==
    [i \in DOMAIN gs |->
        IF first <= i /\ i < first + Len(ptes) THEN ptes[i - first + 1] ELSE gs[i]]

\* A 32 bit word is kept as two 16 bit halves; top holds the bits of a 64 bit
\* value above the word.
Half == 2 ^ 16

Wide(n) == [top |-> 0, hi |-> n \div Half, lo |-> n % Half]

WordVal(w) == w.hi * Half + w.lo

\* unsigned x = y: the conversion of a 64 bit value drops the bits above the word
ToUnsigned(w) == [hi |-> w.hi, lo |-> w.lo]

\* a - b in 32 bits, wrapping
WordSub(a, b) ==
    [hi |-> (a.hi - b.hi - (IF a.lo < b.lo THEN 1 ELSE 0)) % Half,
     lo |-> (a.lo - b.lo) % Half]

\* a > b, both unsigned
WordGt(a, b) == a.hi > b.hi \/ (a.hi = b.hi /\ a.lo > b.lo)

\* const int max_entries = gtt_total_entries(dev_priv->gtt) - first_entry;
\* if (WARN(num_entries > max_entries, ...)) num_entries = max_entries;
\* the comparison converts max_entries to unsigned
ggtt_num_entries(first_entry, num_entries, total) ==
    IF WordGt(num_entries, WordSub(total, first_entry))
    THEN WordSub(total, first_entry)
    ELSE num_entries

\* the entries gen6_ggtt_clear_range and gen8_ggtt_clear_range write, for a
\* start and a length in pages
GgttCleared(start, length) ==
    WordVal(ggtt_num_entries(ToUnsigned(Wide(start)), ToUnsigned(Wide(length)),
                             ToUnsigned(Wide(GttEntries))))

gen6_ggtt_clear_range(gs, start, length, use_scratch) ==
    GttFill(gs, start, GgttCleared(start, length),
            snb_pte_encode(ScratchPage, "LLC", use_scratch, 0))

gen8_ggtt_clear_range(gs, start, length, use_scratch) ==
    GttFill(gs, start, GgttCleared(start, length),
            gen8_pte_encode(ScratchPage, "LLC", use_scratch))

gen6_ggtt_insert_entries(gs, pages, start, level, flags) ==
    GttWrite(gs, start,
             [i \in 1 .. Len(pages) |-> snb_pte_encode(pages[i], level, TRUE, flags)])

gen8_ggtt_insert_entries(gs, pages, start, level, flags) ==
    GttWrite(gs, start,
             [i \in 1 .. Len(pages) |-> gen8_pte_encode(pages[i], level, TRUE)])

\* the chipset helper of the generations before gen6: bit 0 of an entry is
\* its valid bit, bits 1 and 2 mark cached system memory
intel_gtt_clear_range(gs, first, num) == GttFill(gs, first, num, Pte(ScratchPage, 1))

intel_gtt_insert_sg_entries(gs, pages, first, cached) ==
    GttWrite(gs, first,
             [i \in 1 .. Len(pages) |->
                Pte(pages[i], 1 + IF cached THEN 6 ELSE 0)])

\* -- what insert_entries does to the hardware, in program order -------------
\* <<access, entry>> for a store to or a load from a table entry,
\* <<access, register>> for a register access
EntryAccesses(access, pages, start) ==
    [i \in 1 .. Len(pages) |-> <<access, start + i - 1>>]

GfxFlush ==
    <<<<"I915_WRITE", "GFX_FLSH_CNTL_GEN6">>, <<"POSTING_READ", "GFX_FLSH_CNTL_GEN6">>>>

\* variant: nothing is flushed when no entry was written
gen6_ggtt_insert_io_written(pages, start) ==
    EntryAccesses("iowrite32", pages, start)
        \o (IF Len(pages) # 0
            THEN <<<<"readl", start + Len(pages) - 1>>>> \o GfxFlush ELSE << >>)

gen6_ggtt_insert_io(pages, start) ==
    EntryAccesses("iowrite32", pages, start)
        \o (IF Len(pages) # 0 THEN <<<<"readl", start + Len(pages) - 1>>>> ELSE << >>)
        \o GfxFlush

gen8_ggtt_insert_io(pages, start) ==
    EntryAccesses("gen8_set_pte", pages, start)
        \o (IF Len(pages) # 0 THEN <<<<"readq", start + Len(pages) - 1>>>> ELSE << >>)
        \o GfxFlush

\* the tables are written through a kernel mapping of their page
gen6_ppgtt_insert_io(pages, start) == EntryAccesses("pt_vaddr", pages, start)

Gen8Clflush(has_llc, page) ==
    IF has_llc THEN << >> ELSE <<<<"drm_clflush_virt_range", page>>>>

RECURSIVE Gen8InsertIo(_, _, _, _, _, _, _)
Gen8InsertIo(io, pages, i, pdpe, pde, pte, has_llc) ==
    IF i > Len(pages) \/ pdpe >= GEN8_LEGACY_PDPS
    THEN io \o (IF pte # 0 /\ i > 1
                THEN Gen8Clflush(has_llc, pdpe * GEN8_PDES_PER_PAGE + pde) ELSE << >>)
    ELSE Gen8InsertIo(
            Append(io, <<"pt_vaddr",
                         (pdpe * GEN8_PDES_PER_PAGE + pde) * GEN8_PTES_PER_PAGE + pte>>)
                \o (IF pte + 1 = GEN8_PTES_PER_PAGE
                    THEN Gen8Clflush(has_llc, pdpe * GEN8_PDES_PER_PAGE + pde)
                    ELSE << >>),
            pages, i + 1,
            IF pte + 1 = GEN8_PTES_PER_PAGE /\ pde + 1 = GEN8_PDES_PER_PAGE
            THEN pdpe + 1 ELSE pdpe,
            IF pte + 1 # GEN8_PTES_PER_PAGE THEN pde
            ELSE IF pde + 1 = GEN8_PDES_PER_PAGE THEN 0 ELSE pde + 1,
            IF pte + 1 = GEN8_PTES_PER_PAGE THEN 0 ELSE pte + 1,
            has_llc)

gen8_ppgtt_insert_io(pages, start, has_llc) ==
    Gen8InsertIo(<< >>, pages, 1, Gen8Pdpe(start), Gen8Pde(start), Gen8Pte(start),
                 has_llc)

\* vm->insert_entries
insert_entries_io(vm, pages, start, has_llc) ==
    CASE vm = "gen6_ggtt" -> gen6_ggtt_insert_io(pages, start)
      [] vm = "gen8_ggtt" -> gen8_ggtt_insert_io(pages, start)
      [] vm = "gen6_ppgtt" -> gen6_ppgtt_insert_io(pages, start)
      [] vm = "gen8_ppgtt" -> gen8_ppgtt_insert_io(pages, start, has_llc)

\* -- objects and their VMA -------------------------------------------------
Objects == 1 .. NumObjects

\* obj->pages: object o has o + 1 pages; the first page of object 2 lies
\* above 4 GiB
ObjPages(o) ==
    [i \in 1 .. o + 1 |-> (IF o = 2 /\ i = 1 THEN Gen6Frames ELSE 0) + 16 * o + i]

ObjSize(o) == Len(ObjPages(o))

NoNode == 0 - 1

\* start: vma->node.start in pages, NoNode without a node; bound: the VMA's
\* entries of a per-process table were inserted and not cleared by an unbind
NoVma ==
    [start |-> NoNode, bound |-> FALSE, cache_level |-> "NONE",
     has_global_gtt_mapping |-> FALSE, has_aliasing_ppgtt_mapping |-> FALSE]

\* the entries and the objects an operation works on
Gtt == [tables |-> ppgtt.tables, gsm |-> gsm, obj |-> obj]

\* vm->clear_range and vm->insert_entries as the init functions set them
PpgttClearRange(t, start, length, use_scratch) ==
    IF gen < 8 THEN gen6_ppgtt_clear_range(t, start, length, use_scratch)
    ELSE gen8_ppgtt_clear_range(t, start, length, use_scratch)

PpgttInsertEntries(t, pages, start, cache_level, flags) ==
    IF gen < 8 THEN gen6_ppgtt_insert_entries(t, pages, start, cache_level, flags)
    ELSE gen8_ppgtt_insert_entries(t, pages, start, cache_level, flags)

GgttClearRange(gs, start, length, use_scratch) ==
    IF gen < 8 THEN gen6_ggtt_clear_range(gs, start, length, use_scratch)
    ELSE gen8_ggtt_clear_range(gs, start, length, use_scratch)

GgttInsertEntries(gs, pages, start, cache_level, flags) ==
    IF gen < 8 THEN gen6_ggtt_insert_entries(gs, pages, start, cache_level, flags)
    ELSE gen8_ggtt_insert_entries(gs, pages, start, cache_level, flags)

ppgtt_bind_vma(g, o, cache_level, flags) ==
    [g EXCEPT
        !.tables = PpgttInsertEntries(@, ObjPages(o), g.obj[o].start, cache_level, flags),
        !.obj[o].bound = TRUE]

ppgtt_unbind_vma(g, o) ==
    [g EXCEPT
        !.tables = PpgttClearRange(@, g.obj[o].start, ObjSize(o), TRUE),
        !.obj[o].bound = FALSE]

i915_ggtt_bind_vma(g, o, cache_level, flags) ==
    [g EXCEPT
        !.gsm = intel_gtt_insert_sg_entries(@, ObjPages(o), g.obj[o].start,
                                            cache_level # "NONE"),
        !.obj[o].has_global_gtt_mapping = TRUE]

i915_ggtt_unbind_vma(g, o) ==
    [g EXCEPT
        !.gsm = intel_gtt_clear_range(@, g.obj[o].start, ObjSize(o)),
        !.obj[o].has_global_gtt_mapping = FALSE]

GlobalBind(g, o, cache_level, flags) ==
    IF (enable_ppgtt # 1 \/ flags.global_bind)
       /\ (~g.obj[o].has_global_gtt_mapping \/ cache_level # g.obj[o].cache_level)
    THEN [g EXCEPT
            !.gsm = GgttInsertEntries(@, ObjPages(o), g.obj[o].start, cache_level, flags),
            !.obj[o].has_global_gtt_mapping = TRUE]
    ELSE g

AliasingBind(g, o, cache_level, flags) ==
    IF enable_ppgtt = 1
       /\ (~g.obj[o].has_aliasing_ppgtt_mapping \/ cache_level # g.obj[o].cache_level)
    THEN [g EXCEPT
            !.tables = PpgttInsertEntries(@, ObjPages(o), g.obj[o].start,
                                          cache_level, flags),
            !.obj[o].has_aliasing_ppgtt_mapping = TRUE]
    ELSE g

ggtt_bind_vma(g, o, cache_level, flags) ==
    AliasingBind(GlobalBind(g, o, cache_level, flags), o, cache_level, flags)

GlobalUnbind(g, o) ==
    IF g.obj[o].has_global_gtt_mapping
    THEN [g EXCEPT
            !.gsm = GgttClearRange(@, g.obj[o].start, ObjSize(o), TRUE),
            !.obj[o].has_global_gtt_mapping = FALSE]
    ELSE g

AliasingUnbind(g, o) ==
    IF g.obj[o].has_aliasing_ppgtt_mapping
    THEN [g EXCEPT
            !.tables = PpgttClearRange(@, g.obj[o].start, ObjSize(o), TRUE),
            !.obj[o].has_aliasing_ppgtt_mapping = FALSE]
    ELSE g

\* variant: the aliasing mapping is looked at only without a global mapping
ggtt_unbind_vma_either(g, o) ==
    IF g.obj[o].has_global_gtt_mapping THEN GlobalUnbind(g, o) ELSE AliasingUnbind(g, o)

ggtt_unbind_vma(g, o) == AliasingUnbind(GlobalUnbind(g, o), o)

\* the bind and unbind functions __i915_gem_vma_create gives a VMA
bind_vma(g, o, cache_level, flags) ==
    IF gen < 6 THEN i915_ggtt_bind_vma(g, o, cache_level, flags)
    ELSE IF enable_ppgtt = 2 THEN ppgtt_bind_vma(g, o, cache_level, flags)
    ELSE ggtt_bind_vma(g, o, cache_level, flags)

unbind_vma(g, o) ==
    IF gen < 6 THEN i915_ggtt_unbind_vma(g, o)
    ELSE IF enable_ppgtt = 2 THEN ppgtt_unbind_vma(g, o)
    ELSE ggtt_unbind_vma(g, o)

\* -- the address spaces and their callers ----------------------------------
\* The device after i915_gem_setup_global_gtt cleared the global table, before
\* the aliasing or the per-process page table is initialised.  enable_ppgtt is
\* the sanitized module option: 0 none, 1 aliasing, 2 full.
InitGtt ==
    /\ InitDisplay(0, 0, 0, 0)
    /\ has_prepare_fb = FALSE
    /\ has_cleanup_fb = FALSE
    /\ gen \in {5, 6, 8}
    /\ enable_ppgtt \in (IF gen < 6 THEN {0} ELSE {0, 1, 2})
    /\ ppgtt = NoPpgtt
    /\ gsm = IF gen < 6
             THEN intel_gtt_clear_range([i \in 0 .. GttEntries - 1 |-> Pte(0, 0)],
                                        0, GttEntries)
             ELSE GgttClearRange([i \in 0 .. GttEntries - 1 |-> Pte(0, 0)],
                                 0, GttEntries, TRUE)
    /\ obj = [o \in Objects |-> NoVma]
    /\ gpc = IF enable_ppgtt = 0 THEN "ready" ELSE "probe"
    /\ last = NoOp
    /\ eval = NoEval

\* pages of the address space the VMAs live in
VmTotal == IF enable_ppgtt = 2 THEN ppgtt.total ELSE GttEntries

\* where drm_mm can place the node of object o
FreeStarts(o) ==
    {s \in 0 .. VmTotal - ObjSize(o) :
        \A q \in Objects \ {o} :
            \/ obj[q].start = NoNode
            \/ s + ObjSize(o) <= obj[q].start
            \/ obj[q].start + ObjSize(q) <= s}

Done(g, op, o) ==
    /\ ppgtt' = [ppgtt EXCEPT !.tables = g.tables, !.log = << >>]
    /\ gsm' = g.gsm
    /\ obj' = g.obj
    /\ last' = [op |-> op, o |-> o, prev |-> IF last.o = o THEN last.op ELSE "none"]
    /\ UNCHANGED <<gen, enable_ppgtt, gpc, eval, displayvars>>

PpgttInit ==
    /\ gpc = "probe"
    /\ \E env \in InitEnvs :
          /\ ppgtt' = hw_ppgtt_init(NoPpgtt, env)
          /\ gpc' = IF ppgtt'.ret = 0 THEN "ready" ELSE "failed"
    /\ last' = [NoOp EXCEPT !.op = "init"]
    /\ UNCHANGED <<gen, enable_ppgtt, gsm, obj, eval, displayvars>>

\* the cache levels objects are bound with
BindLevels == {"NONE", "LLC"}

\* i915_vma_bind or i915_gem_object_set_cache_level: the node is reserved at
\* the first bind, and obj->cache_level is the level of the last bind
Bind(o) ==
    /\ gpc = "ready"
    /\ \E s \in (IF obj[o].start = NoNode THEN FreeStarts(o) ELSE {obj[o].start}),
          cache_level \in BindLevels,
          global_bind \in (IF enable_ppgtt = 1 THEN BOOLEAN ELSE {FALSE}) :
          Done([bind_vma([Gtt EXCEPT !.obj[o].start = s], o, cache_level,
                         [global_bind |-> global_bind])
                   EXCEPT !.obj[o].cache_level = cache_level],
               "bind", o)

Unbind(o) ==
    /\ gpc = "ready"
    /\ obj[o].start # NoNode
    /\ Done(unbind_vma(Gtt, o), "unbind", o)

\* i915_vma_unbind releases the node of an unbound VMA
RemoveNode(o) ==
    /\ gpc = "ready"
    /\ obj[o].start # NoNode
    /\ ~obj[o].bound
    /\ ~obj[o].has_global_gtt_mapping
    /\ ~obj[o].has_aliasing_ppgtt_mapping
    /\ last.op = "unbind" /\ last.o = o
    /\ Done([Gtt EXCEPT !.obj[o].start = NoNode], "remove", o)

\* every call of clear_range passes use_scratch = true
UseScratch == {TRUE}

ClearRange ==
    /\ gpc = "ready"
    /\ enable_ppgtt = 2
    /\ \E s \in 0 .. ppgtt.total - 1, use_scratch \in UseScratch :
       \E n \in 1 .. Least(ClearPages, ppgtt.total - s) :
          Done([Gtt EXCEPT !.tables = PpgttClearRange(@, s, n, use_scratch)],
               "clear", 0)

NextGtt ==
    \/ PpgttInit
    \/ \E o \in Objects : Bind(o)
    \/ \E o \in Objects : Unbind(o)
    \/ \E o \in Objects : RemoveNode(o)
    \/ ClearRange

SpecGtt == InitGtt /\ [][NextGtt]_vars

\* -- the encoders on their own ----------------------------------------------
\* "INVALID" stands for an integer outside enum i915_cache_level
EncodeLevels == CacheLevels \cup {"INVALID"}

EncodeFrames == {7, 3 * Gen6Frames + 7}

EncodeCalls ==
    [fn : {"pte_encode"}, encoder : PteEncoders, pfn : EncodeFrames,
     level : EncodeLevels, valid : BOOLEAN, flags : {0, PTE_READ_ONLY},
     returned : {FALSE}]

InitEncode ==
    /\ InitDisplay(0, 0, 0, 0)
    /\ has_prepare_fb = FALSE
    /\ has_cleanup_fb = FALSE
    /\ gen = 0
    /\ enable_ppgtt = 0
    /\ ppgtt = NoPpgtt
    /\ gsm = << >>
    /\ obj = << >>
    /\ gpc = "off"
    /\ last = NoOp
    /\ eval \in EncodeCalls

Encoded(e) ==
    [fn |-> e.fn, encoder |-> e.encoder, pfn |-> e.pfn, level |-> e.level,
     valid |-> e.valid, flags |-> e.flags, returned |-> TRUE,
     pte |-> pte_encode(e.encoder, e.pfn, e.level, e.valid, e.flags),
     warned |-> pte_warns(e.encoder, e.level)]

Encode ==
    /\ eval.fn = "pte_encode"
    /\ ~eval.returned
    /\ eval' = Encoded(eval)
    /\ UNCHANGED <<gen, enable_ppgtt, ppgtt, gsm, obj, gpc, last, displayvars>>

NextEncode == Encode

SpecEncode == InitEncode /\ [][NextEncode]_vars

\* -- insert_entries on its own ----------------------------------------------
InsertStarts == 0 .. 3

InsertCalls ==
    [fn : {"insert_entries"},
     vm : {"gen6_ggtt", "gen8_ggtt", "gen6_ppgtt", "gen8_ppgtt"},
     pages : {ObjPages(o) : o \in Objects} \cup {<< >>},
     start : InsertStarts, has_llc : BOOLEAN, returned : {FALSE}]

InitInsert ==
    /\ InitDisplay(0, 0, 0, 0)
    /\ has_prepare_fb = FALSE
    /\ has_cleanup_fb = FALSE
    /\ gen = 0
    /\ enable_ppgtt = 0
    /\ ppgtt = NoPpgtt
    /\ gsm = << >>
    /\ obj = << >>
    /\ gpc = "off"
    /\ last = NoOp
    /\ eval \in InsertCalls

Inserted(e) ==
    [fn |-> e.fn, vm |-> e.vm, pages |-> e.pages, start |-> e.start,
     has_llc |-> e.has_llc, returned |-> TRUE,
     io |-> insert_entries_io(e.vm, e.pages, e.start, e.has_llc)]

Insert ==
    /\ eval.fn = "insert_entries"
    /\ ~eval.returned
    /\ eval' = Inserted(eval)
    /\ UNCHANGED <<gen, enable_ppgtt, ppgtt, gsm, obj, gpc, last, displayvars>>

NextInsert == Insert

SpecInsert == InitInsert /\ [][NextInsert]_vars

\* -- the range the clear_range of the global table writes ---------------------
\* start >> PAGE_SHIFT and length >> PAGE_SHIFT of the callers, as 64 bit values
ClearStarts ==
    [top : {0, 1}, hi : {0, 1, Half - 1}, lo : {0, 3, GttEntries, GttEntries + 1, Half - 1}]

ClearLengths ==
    [top : {0, 1}, hi : {0, Half - 1}, lo : {0, 1, 3, GttEntries, GttEntries + 1, Half - 1}]

ClearCalls ==
    [fn : {"ggtt_clear_range"}, vm : {"gen6_ggtt", "gen8_ggtt"}, start : ClearStarts,
     length : ClearLengths, returned : {FALSE}]

InitClear ==
    /\ InitDisplay(0, 0, 0, 0)
    /\ has_prepare_fb = FALSE
    /\ has_cleanup_fb = FALSE
    /\ gen = 0
    /\ enable_ppgtt = 0
    /\ ppgtt = NoPpgtt
    /\ gsm = << >>
    /\ obj = << >>
    /\ gpc = "off"
    /\ last = NoOp
    /\ eval \in ClearCalls

\* the loop writes gtt_base[i] for i below num_entries: first is first_entry,
\* num the entries written from it on; both functions compute them alike
RangeCleared(e) ==
    [fn |-> e.fn, vm |-> e.vm, start |-> e.start, length |-> e.length,
     returned |-> TRUE,
     first |-> ToUnsigned(e.start),
     num |-> ggtt_num_entries(ToUnsigned(e.start), ToUnsigned(e.length),
                              ToUnsigned(Wide(GttEntries)))]

ClearGgttRange ==
    /\ eval.fn = "ggtt_clear_range"
    /\ ~eval.returned
    /\ eval' = RangeCleared(eval)
    /\ UNCHANGED <<gen, enable_ppgtt, ppgtt, gsm, obj, gpc, last, displayvars>>

NextClear == ClearGgttRange

\* gen6_ggtt_clear_range and gen8_ggtt_clear_range on a table of GttEntries
\* entries, for starts and lengths inside, at the end of, beyond the table and
\* beyond 32 bits
SpecClear == InitClear /\ [][NextClear]_vars

\* -- insert_entries, then clear_range over the same range, on a 2-level
\* page table as gen6_ppgtt_init leaves it --------------------------------
Gen6Total == GEN6_PPGTT_PD_ENTRIES * I915_PPGTT_PT_ENTRIES

Gen6Cleared ==
    gen6_ppgtt_clear_range(
        [t \in 0 .. GEN6_PPGTT_PD_ENTRIES - 1 |->
            [i \in 0 .. I915_PPGTT_PT_ENTRIES - 1 |-> Pte(0, 0)]],
        0, Gen6Total, TRUE)

RoundTripCalls ==
    {[fn |-> "round_trip", pages |-> [i \in 1 .. n |-> 40 + i], start |-> s,
      level |-> l, stage |-> "called", tables |-> Gen6Cleared] :
        n \in 1 .. Least(MaxListLen, Gen6Total), s \in 0 .. Gen6Total - 1,
        l \in BindLevels}

InitRoundTrip ==
    /\ InitDisplay(0, 0, 0, 0)
    /\ has_prepare_fb = FALSE
    /\ has_cleanup_fb = FALSE
    /\ gen = 0
    /\ enable_ppgtt = 0
    /\ ppgtt = NoPpgtt
    /\ gsm = << >>
    /\ obj = << >>
    /\ gpc = "off"
    /\ last = NoOp
    /\ eval \in {e \in RoundTripCalls : e.start + Len(e.pages) <= Gen6Total}

InsertPages ==
    /\ eval.fn = "round_trip"
    /\ eval.stage = "called"
    /\ eval' = [eval EXCEPT
                  !.stage = "inserted",
                  !.tables = gen6_ppgtt_insert_entries(@, eval.pages, eval.start,
                                                       eval.level, 0)]
    /\ UNCHANGED <<gen, enable_ppgtt, ppgtt, gsm, obj, gpc, last, displayvars>>

ClearPagesAgain ==
    /\ eval.fn = "round_trip"
    /\ eval.stage = "inserted"
    /\ eval' = [eval EXCEPT
                  !.stage = "cleared",
                  !.tables = gen6_ppgtt_clear_range(@, eval.start, Len(eval.pages),
                                                    TRUE)]
    /\ UNCHANGED <<gen, enable_ppgtt, ppgtt, gsm, obj, gpc, last, displayvars>>

NextRoundTrip == InsertPages \/ ClearPagesAgain

SpecRoundTrip == InitRoundTrip /\ [][NextRoundTrip]_vars

\* ---- properties of routing resolution ------------------------------------
\* the state an object has once the transaction is committed: its staged state if
\* the transaction contains it, else its live state
NewConnectorState(c) ==
    IF c \in state.connectors THEN state.connector_states[c] ELSE connector_state[c]

NewCrtcState(k) ==
    IF k \in state.crtcs THEN state.crtc_states[k] ELSE crtc_state[k]

CheckPassed == pc = "checked" /\ ret = 0

\* C1: after a successful drm_atomic_helper_check no two connector states of the
\* transaction hold the same non-null best_encoder.
C1_NoSharedEncoder ==
    CheckPassed =>
        \A c, d \in state.connectors :
            (c # d /\ state.connector_states[c].best_encoder # NONE)
                => state.connector_states[c].best_encoder
                       # state.connector_states[d].best_encoder

\* C2: after a successful check every connector state of the transaction has a
\* best_encoder exactly when it has a crtc; this covers the connectors pulled in
\* because their encoder was stolen.
C2_EncoderIffCrtc ==
    CheckPassed =>
        \A c \in state.connectors :
            (state.connector_states[c].best_encoder # NONE)
                = (state.connector_states[c].crtc # NONE)

\* a successful check in which a connector that was not part of the request lost
\* its encoder to another connector
C2_StolenConnectorPulledIn ==
    /\ CheckPassed
    /\ \E c \in state.connectors, d \in state.connectors :
          /\ c \notin requested.connectors
          /\ connector_state[c].best_encoder # NONE
          /\ state.connector_states[c].crtc = NONE
          /\ state.connector_states[d].crtc # NONE
          /\ state.connector_states[d].best_encoder = connector_state[c].best_encoder

\* C3: a crtc is enabled exactly when at least one connector is routed to it, in
\* the staged state after a successful check and in the live state after the
\* swap, whatever transactions came before.
C3_EnableMatchesRouting ==
    /\ CheckPassed =>
          \A k \in Crtcs :
              NewCrtcState(k).enable = (\E c \in Connectors : NewConnectorState(c).crtc = k)
    /\ pc = "committed" =>
          \A k \in Crtcs :
              crtc_state[k].enable = (\E c \in Connectors : connector_state[c].crtc = k)

\* C9: with connector x live on encoder e and crtc A, and connector y live
\* unrouted, a transaction that routes y to a crtc K and for which best_encoder
\* answers e for y passes check with x staged unrouted without encoder, A and K
\* marked mode_changed, and y holding e on K.
C9_StealScenario ==
    CheckPassed =>
        \A x, y \in Connectors :
            ( /\ x # y
              /\ connector_state[x].crtc # NONE
              /\ connector_state[x].best_encoder # NONE
              /\ connector_state[y].crtc = NONE
              /\ connector_state[y].best_encoder = NONE
              /\ y \in requested.connectors
              /\ requested.connector_states[y].crtc # NONE
              /\ best_encoder[y] = connector_state[x].best_encoder )
            => /\ x \in state.connectors
               /\ state.connector_states[x].crtc = NONE
               /\ state.connector_states[x].best_encoder = NONE
               /\ connector_state[x].crtc \in state.crtcs
               /\ state.crtc_states[connector_state[x].crtc].mode_changed
               /\ state.connector_states[y].crtc = requested.connector_states[y].crtc
               /\ state.connector_states[y].best_encoder = best_encoder[y]
               /\ state.connector_states[y].crtc \in state.crtcs
               /\ state.crtc_states[state.connector_states[y].crtc].mode_changed

\* ---- properties of check and commit --------------------------------------
\* C4: drm_atomic_helper_check changes only the staged states of the transaction;
\* the live state of every connector, crtc and plane is the same after the call,
\* whether it succeeds or fails.
C4_CheckLeavesLiveState ==
    [][(pc = "build" /\ pc' = "checked")
          => UNCHANGED <<connector_state, crtc_state, plane_state,
                         connector_encoder, encoder_crtc, crtc_legacy>>]_vars

\* a check that failed after it had written to the staged states
C4_FailedCheckWroteStaged ==
    /\ pc = "checked"
    /\ ret # 0
    /\ state.crtcs # {}
    /\ state # requested

\* the live states are the states staged for the objects of transaction t; a plane
\* state has given up its fence reference once the fence was waited for
LiveIsStaged(t) ==
    /\ \A c \in t.connectors : connector_state[c] = t.connector_states[c]
    /\ \A k \in t.crtcs : crtc_state[k] = t.crtc_states[k]
    /\ \A p \in t.planes :
          plane_state[p] = [t.plane_states[p] EXCEPT !.fence = FALSE]

AfterPrepare ==
    {"swap_state", "wait_for_fences", "disable_outputs", "set_routing_links",
     "crtc_set_mode", "commit_planes", "commit_post_planes", "wait_for_vblanks",
     "cleanup_planes", "state_free", "committed"}

\* C5: drm_atomic_helper_commit is all-or-nothing.  It returns an error only when
\* it rejects an async commit or when plane preparation fails, and then no live
\* state was swapped.  Once plane preparation succeeded it returns 0 with the live
\* state of every object of the transaction being the state staged for it.
C5_AllOrNothing ==
    /\ pc = "commit_failed" =>
          /\ ret # 0
          /\ \/ async /\ phases = << >>
             \/ ~async /\ phases = <<"prepare_planes">>
          /\ Live = before
          /\ state = staged
    /\ pc \in AfterPrepare => ret = 0
    /\ pc = "committed" =>
          /\ Len(phases) = 11
          /\ phases[Len(phases)] = "state_free"
          /\ LiveIsStaged(staged)

\* a commit that returned 0 for a transaction with a connector, a crtc and a plane
\* that carried a fence
C5_CommittedEverything ==
    /\ pc = "committed"
    /\ staged.connectors # {}
    /\ staged.crtcs # {}
    /\ \E p \in staged.planes : staged.plane_states[p].fence
    /\ Live # before

IsPrepare(e) == e[1] = "prepare_fb"

IsCleanup(e) == e[1] = "cleanup_fb"

Prepares == SelectSeq(calls, IsPrepare)

Cleanups == SelectSeq(calls, IsCleanup)

\* the planes whose prepare_fb returned 0
Prepared == {Prepares[j][2] : j \in {n \in 1 .. Len(Prepares) : Prepares[n][4] = 0}}

PrepareFailed == pc = "commit_failed" /\ ~async

CommitOrder ==
    <<"prepare_planes", "swap_state", "wait_for_fences", "disable_outputs",
      "set_routing_links", "crtc_set_mode", "commit_planes", "commit_post_planes",
      "wait_for_vblanks", "cleanup_planes", "state_free">>

\* C7: a successful commit runs its phases in the order plane preparation, state
\* swap, fence wait, output disable, routing-link update, mode set, plane commit,
\* post-plane commit, vblank wait, plane cleanup, state free; every phase runs once
\* and none starts before the phase in front of it.
C7_PhaseOrder ==
    /\ Len(phases) <= Len(CommitOrder)
    /\ phases = SubSeq(CommitOrder, 1, Len(phases))
    /\ pc = "committed" => phases = CommitOrder
    /\ pc \in AfterPrepare \ {"committed"} =>
          /\ Len(phases) < Len(CommitOrder)
          /\ pc = CommitOrder[Len(phases) + 1]

\* a commit that has returned 0
C7_CommitReturned ==
    /\ pc = "committed"
    /\ ret = 0
    /\ Len(phases) = Len(CommitOrder)

\* C8: drm_atomic_helper_swap_state exchanges the staged and the live state of
\* every object of the transaction and leaves every other object alone; a second
\* swap restores the pointers.
C8_SwapExchanges ==
    [][(pc = "swap_state" /\ pc' = "wait_for_fences") =>
          /\ state'.connectors = state.connectors
          /\ state'.crtcs = state.crtcs
          /\ state'.planes = state.planes
          /\ \A c \in Connectors :
                IF c \in state.connectors
                THEN /\ connector_state'[c] = state.connector_states[c]
                     /\ state'.connector_states[c] = connector_state[c]
                ELSE connector_state'[c] = connector_state[c]
          /\ \A k \in Crtcs :
                IF k \in state.crtcs
                THEN /\ crtc_state'[k] = state.crtc_states[k]
                     /\ state'.crtc_states[k] = crtc_state[k]
                ELSE crtc_state'[k] = crtc_state[k]
          /\ \A p \in Planes :
                IF p \in state.planes
                THEN /\ plane_state'[p] = state.plane_states[p]
                     /\ state'.plane_states[p] = plane_state[p]
                ELSE plane_state'[p] = plane_state[p]
          /\ drm_atomic_helper_swap_state(drm_atomic_helper_swap_state(Mem)) = Mem
      ]_vars

\* the states were swapped for a transaction that holds some planes and not others
C8_Swapped ==
    /\ pc = "wait_for_fences"
    /\ state.connectors # {}
    /\ state.crtcs # {}
    /\ state.planes # {}
    /\ state.planes # Planes
    /\ \E p \in state.planes : plane_state[p] # state.plane_states[p]

\* C10: drm_atomic_helper_commit called with async set returns -EBUSY at once: no
\* live state or legacy link changes, no hook is called, no phase starts and the
\* transaction is still the caller's to free.
C10_AsyncRejected ==
    [][(pc = "checked" /\ async') =>
          /\ ret' = EBUSY
          /\ pc' = "commit_failed"
          /\ UNCHANGED <<connector_state, crtc_state, plane_state,
                         connector_encoder, encoder_crtc, crtc_legacy,
                         state, calls, phases, commits>>
          /\ calls = << >>
          /\ phases = << >>
      ]_vars

\* an async commit of a transaction that holds a plane with a framebuffer
C10_AsyncReturned ==
    /\ pc = "commit_failed"
    /\ async
    /\ \E p \in state.planes : state.plane_states[p].fb # NONE

\* ---- properties of the legacy helpers ------------------------------------
Returned == pc = "returned" /\ helper.name # "none"

\* C11: no legacy helper returns -EDEADLK to its caller; a round that ended in
\* -EDEADLK goes to backoff without freeing the transaction, and backoff leaves
\* the transaction empty and the helper at its first step
C11_DeadlockRetried ==
    [][/\ pc' = "returned" => ret' # EDEADLK
       /\ pc = "fail" /\ ret = EDEADLK /\ pc' # pc =>
              pc' = "backoff" /\ frees' = frees /\ handed' = handed
       /\ pc = "backoff" /\ pc' # pc => pc' = "retry" /\ state' = EmptyState]_vars

\* a helper returned 0 after MaxRetries rounds that ended in -EDEADLK
C11_ReturnedAfterBackoff == Returned /\ ret = 0 /\ retries = MaxRetries

\* C12: when a legacy helper returns, the transaction it allocated was either taken
\* by a successful commit (and 0 is returned) or freed once (and the error is
\* returned), never both and never neither; before it returns, backoff rounds
\* included, the transaction was neither freed nor taken; a helper that allocated
\* no transaction frees none
C12_FreedOrHanded ==
    /\ Returned /\ helper.allocated =>
           /\ frees + handed = 1
           /\ handed = 1 <=> ret = 0
    /\ Returned /\ ~helper.allocated => frees = 0 /\ handed = 0 /\ ret # 0
    /\ pc \in {"retry", "fail", "backoff"} => frees = 0 /\ handed = 0

\* a helper backed off once and then returned an error, its transaction freed
C12_FreedAfterBackoff == Returned /\ ret = EINVAL /\ retries = 1 /\ frees = 1

\* C13: the loop has no retry cap, a round that ended in -EDEADLK is followed by
\* another one however many there were; once the lock domain stops signalling
\* deadlocks a helper that keeps running returns
C13_HelperReturns ==
    /\ [][pc = "fail" /\ ret = EDEADLK /\ pc' # pc => pc' = "backoff"]_vars
    /\ [][pc = "backoff" /\ pc' # pc => pc' = "retry" /\ helper' = helper]_vars
    /\ (pc = "retry" ~> pc = "returned")

\* a helper backs off again after MaxRetries backoff rounds
C13_BacksOffAgain == pc = "backoff" /\ retries = MaxRetries

\* ---- properties of the vblank wait ----------------------------------------
\* the positions in calls of the vblank service name called for crtc k
VblankCalls(name, k) ==
    {j \in 1 .. Len(calls) : calls[j][1] = name /\ calls[j][2] = k}

\* the drm_crtc_vblank_get calls for crtc k that returned a reference
VblankHeld(k) == {j \in VblankCalls("vblank_get", k) : calls[j][4] = 0}

VblanksWaited == \E j \in 1 .. Len(phases) : phases[j] = "wait_for_vblanks"

\* C14: drm_atomic_helper_wait_for_vblanks asks for one vblank reference for every
\* crtc of the transaction whose new state is enabled and for no other crtc; every
\* reference it got is released once, after the wait and whatever the wait
\* returned; no reference is released for a crtc whose drm_crtc_vblank_get failed
\* or whose new state is disabled
C14_VblankRefsBalanced ==
    \A k \in Crtcs :
        /\ Cardinality(VblankCalls("vblank_get", k)) =
               IF VblanksWaited /\ k \in staged.crtcs /\ crtc_state[k].enable
               THEN 1 ELSE 0
        /\ Cardinality(VblankCalls("vblank_put", k)) = Cardinality(VblankHeld(k))
        /\ Cardinality(VblankCalls("vblank_wait", k)) = Cardinality(VblankHeld(k))
        /\ \A j \in VblankCalls("vblank_put", k) :
               /\ j - 1 \in VblankCalls("vblank_wait", k)
               /\ \E i \in VblankHeld(k) : i < j

\* of two enabled crtcs of a transaction one got no vblank reference, and the
\* reference of the other was released after a wait that timed out
C14_FailedAndTimedOut ==
    \E k1, k2 \in Crtcs :
        /\ VblankCalls("vblank_get", k1) # {} /\ VblankHeld(k1) = {}
        /\ \E j \in VblankCalls("vblank_wait", k2) : calls[j][4] = 0
        /\ VblankCalls("vblank_put", k2) # {}

\* ---- progress of a commit ---------------------------------------------------
PhaseStarted(name) == \E j \in 1 .. Len(phases) : phases[j] = name

\* C15: a commit that swapped the states cleans up the planes and returns 0 if
\* every fence it waits for signals in the end; no vblank has to come, each wait
\* for one ends after its timeout
C15_CommitCompletes ==
    (pc = "wait_for_fences") ~>
        (pc = "committed" /\ ret = 0 /\ PhaseStarted("cleanup_planes"))

\* a commit returned that waited for a fence and whose wait for a vblank timed out
C15_CommittedWithoutVblank ==
    /\ pc = "committed"
    /\ \E p \in staged.planes : staged.plane_states[p].fence
    /\ \E j \in 1 .. Len(calls) : calls[j][1] = "vblank_wait" /\ calls[j][4] = 0

\* ---- properties of the page tables ----------------------------------------
\* the entry the hardware reads for virtual page v
EntryAt(t, v) ==
    IF gen < 8
    THEN t[v \div I915_PPGTT_PT_ENTRIES][v % I915_PPGTT_PT_ENTRIES]
    ELSE t[v \div (GEN8_PTES_PER_PAGE * GEN8_PDES_PER_PAGE)]
          [(v \div GEN8_PTES_PER_PAGE) % GEN8_PDES_PER_PAGE][v % GEN8_PTES_PER_PAGE]

PteValid(pte) == pte.low % 2 = 1

\* the page frame a valid entry points at
PteFrame(pte) ==
    IF gen < 8 THEN pte.frame + ((pte.low \div 16) % GEN6_PTE_HIGH) * Gen6Frames
    ELSE pte.frame

ScratchEncoding ==
    IF gen < 8 THEN snb_pte_encode(ScratchPage, "LLC", TRUE, 0)
    ELSE gen8_pte_encode(ScratchPage, "LLC", TRUE)

PointsAtBound(v, pte) ==
    \E o \in Objects :
        /\ obj[o].bound
        /\ obj[o].start <= v /\ v < obj[o].start + ObjSize(o)
        /\ PteFrame(pte) = ObjPages(o)[v - obj[o].start + 1]

\* C16: once a per-process page table is initialised, every entry of its range
\* is a valid PTE that points at a page of a bound object or at the scratch
\* page, whatever binds, unbinds and clears were made; directly after the
\* initialisation every entry of a page table is the scratch encoding.
C16_EntriesValid ==
    /\ (gpc = "ready" /\ enable_ppgtt = 2) =>
          \A v \in 0 .. ppgtt.total - 1 :
              /\ PteValid(EntryAt(ppgtt.tables, v))
              /\ \/ PteFrame(EntryAt(ppgtt.tables, v)) = ScratchPage
                 \/ PointsAtBound(v, EntryAt(ppgtt.tables, v))
    /\ (gpc = "ready" /\ last.op = "init") =>
          \A v \in 0 .. ppgtt.total - 1 : EntryAt(ppgtt.tables, v) = ScratchEncoding

\* both objects are bound in a multi-level per-process table, part of which
\* was then cleared
C16_BoundAndCleared ==
    /\ gpc = "ready" /\ enable_ppgtt = 2 /\ gen = 8
    /\ \A o \in Objects : obj[o].bound
    /\ last.op = "clear"
    /\ \E v \in 0 .. ppgtt.total - 1 :
          /\ EntryAt(ppgtt.tables, v) = ScratchEncoding
          /\ \E o \in Objects : obj[o].start <= v /\ v < obj[o].start + ObjSize(o)

\* the page lists handed to insert_entries: those of the objects, and none
PageLists == {ObjPages(o) : o \in Objects} \cup {<< >>}

\* the entries of t1 inside [start, start + n) are the scratch encoding, the
\* others are those of t0
ClearedIn(t0, t1, start, n, total) ==
    \A v \in 0 .. total - 1 :
        EntryAt(t1, v) = IF start <= v /\ v < start + n THEN ScratchEncoding
                         ELSE EntryAt(t0, v)

\* C17: round trip: for every start and page list that fit the address space,
\* insert_entries followed by clear_range over the same range leaves every
\* covered entry equal to the scratch encoding and every other entry as it was
\* before the insert, in the 2-level and in the multi-level page table.
C17_RoundTrip ==
    (gpc = "ready" /\ enable_ppgtt # 0) =>
        \A pages \in PageLists, cache_level \in CacheLevels :
        \A start \in 0 .. ppgtt.total - Len(pages) :
        \A t1 \in {PpgttClearRange(
                        PpgttInsertEntries(ppgtt.tables, pages, start, cache_level, 0),
                        start, Len(pages), TRUE)} :
            ClearedIn(ppgtt.tables, t1, start, Len(pages), ppgtt.total)

\* an object was bound across a page-table boundary of a per-process table and
\* unbound right after, while the other object stays bound
C17_BoundThenUnbound ==
    /\ gpc = "ready" /\ enable_ppgtt = 2
    /\ last.op = "unbind" /\ last.prev = "bind" /\ last.o = 2
    /\ obj[2].start % I915_PPGTT_PT_ENTRIES = 1
    /\ obj[1].bound
    /\ \A v \in obj[2].start .. obj[2].start + ObjSize(2) - 1 :
          EntryAt(ppgtt.tables, v) = ScratchEncoding

\* the page-table boundaries inside [start, start + n); on the multi-level
\* layout every GEN8_PDES_PER_PAGE-th of them is a page-directory boundary
Boundaries(start, n) ==
    {b \in start + 1 .. start + n - 1 :
        b % (IF gen < 8 THEN I915_PPGTT_PT_ENTRIES ELSE GEN8_PTES_PER_PAGE) = 0}

SplitClear(t, start, n, b) ==
    PpgttClearRange(PpgttClearRange(t, start, b - start, TRUE), b, start + n - b, TRUE)

SplitInsert(t, pages, start, b, cache_level) ==
    PpgttInsertEntries(
        PpgttInsertEntries(t, SubSeq(pages, 1, b - start), start, cache_level, 0),
        SubSeq(pages, b - start + 1, Len(pages)), b, cache_level, 0)

\* C18: on the 2-level and on the multi-level page table, a clear_range or an
\* insert_entries call whose range spans a page-table boundary (or a
\* page-directory boundary) leaves the same entries as two calls split at that
\* boundary.
C18_SplitAtBoundary ==
    (gpc = "ready" /\ enable_ppgtt # 0) =>
        \A pages \in PageLists :
        \A start \in 0 .. ppgtt.total - Len(pages) :
        \A b \in Boundaries(start, Len(pages)) :
            /\ PpgttClearRange(ppgtt.tables, start, Len(pages), TRUE)
                  = SplitClear(ppgtt.tables, start, Len(pages), b)
            /\ \A cache_level \in CacheLevels :
                  PpgttInsertEntries(ppgtt.tables, pages, start, cache_level, 0)
                    = SplitInsert(ppgtt.tables, pages, start, b, cache_level)

\* the three pages of object 2 were inserted into a multi-level per-process
\* table across a page-directory boundary
C18_InsertedAcrossDirectory ==
    /\ gpc = "ready" /\ enable_ppgtt = 2 /\ gen = 8
    /\ last.op = "bind" /\ last.o = 2
    /\ \E b \in Boundaries(obj[2].start, ObjSize(2)) :
          b % (GEN8_PTES_PER_PAGE * GEN8_PDES_PER_PAGE) = 0
    /\ \A i \in 1 .. ObjSize(2) :
          PteFrame(EntryAt(ppgtt.tables, obj[2].start + i - 1)) = ObjPages(2)[i]

\* C19: unbind is idempotent: for the global (ggtt_unbind_vma), the per-process
\* (ppgtt_unbind_vma) and the legacy chipset (i915_ggtt_unbind_vma) unbind,
\* calling it twice in a row on the same VMA leaves the page-table entries and
\* the mapping flags of the object as calling it once does.
C19_UnbindIdempotent ==
    gpc = "ready" =>
        \A o \in Objects :
            obj[o].start # NoNode =>
                /\ gen < 6 =>
                      i915_ggtt_unbind_vma(i915_ggtt_unbind_vma(Gtt, o), o)
                        = i915_ggtt_unbind_vma(Gtt, o)
                /\ (gen >= 6 /\ enable_ppgtt = 2) =>
                      ppgtt_unbind_vma(ppgtt_unbind_vma(Gtt, o), o) = ppgtt_unbind_vma(Gtt, o)
                /\ (gen >= 6 /\ enable_ppgtt # 2) =>
                      ggtt_unbind_vma(ggtt_unbind_vma(Gtt, o), o) = ggtt_unbind_vma(Gtt, o)

\* a VMA with a global and an aliasing mapping was unbound twice in a row
\* while the other object stays mapped
C19_UnboundTwice ==
    /\ gpc = "ready" /\ enable_ppgtt = 1
    /\ last.op = "unbind" /\ last.prev = "unbind"
    /\ ~obj[last.o].has_global_gtt_mapping /\ ~obj[last.o].has_aliasing_ppgtt_mapping
    /\ \E q \in Objects \ {last.o} :
          obj[q].has_global_gtt_mapping /\ obj[q].has_aliasing_ppgtt_mapping
    /\ \A v \in obj[last.o].start .. obj[last.o].start + ObjSize(last.o) - 1 :
          gsm[v] = ScratchEncoding /\ EntryAt(ppgtt.tables, v) = ScratchEncoding

\* the slots the initialisation that just returned handed to a service
Served(service) ==
    {ppgtt.log[i][2] : i \in {j \in DOMAIN ppgtt.log : ppgtt.log[j][1] = service}}

TimesServed(service, slot) ==
    Cardinality({j \in DOMAIN ppgtt.log : ppgtt.log[j] = <<service, slot>>})

\* C20: when the DMA mapping of page-table page k fails in the initialisation
\* of a 2-level page table, then on return exactly the pages that were mapped
\* (the slots below k) have been unmapped, every allocated table page has been
\* freed and the directory region reserved in the global address space has
\* been released.
C20_FullUnwind ==
    (gpc = "failed" /\ gen < 8 /\ ppgtt.ret = EIO) =>
        /\ Served("pci_unmap_page") = Served("pci_map_page")
        /\ \A i \in Served("pci_map_page") : TimesServed("pci_unmap_page", i) = 1
        /\ ppgtt.pt_pages = {}
        /\ Served("__free_page") = Served("alloc_page")
        /\ ~ppgtt.node

\* the services of the multi-level initialisation, as <<acquire, release>>
Gen8Services ==
    {<<"alloc_pages", "__free_pages">>, <<"kcalloc_pt_pages", "kfree_pt_pages">>,
     <<"kcalloc_pt_dma_addr", "kfree_pt_dma_addr">>, <<"alloc_page", "__free_page">>,
     <<"pci_map_pd", "pci_unmap_pd">>, <<"pci_map_page", "pci_unmap_page">>}

\* the places of the log where the service was called on the slot
Calls(service, slot) == {j \in DOMAIN ppgtt.log : ppgtt.log[j] = <<service, slot>>}

\* C21: when a step of the multi-level (gen8) page-table initialisation fails,
\* then on return every page and array allocated so far has been freed exactly
\* once, every DMA mapping created so far has been unmapped exactly once, and
\* nothing that was never allocated or mapped is freed or unmapped.
C21_Gen8Unwind ==
    (gpc = "failed" /\ gen >= 8) =>
        \A s \in Gen8Services, slot \in 0 .. GEN8_LEGACY_PDPS * GEN8_PDES_PER_PAGE :
            /\ Cardinality(Calls(s[1], slot)) <= 1
            /\ Cardinality(Calls(s[2], slot)) = Cardinality(Calls(s[1], slot))
            /\ \A a \in Calls(s[1], slot), r \in Calls(s[2], slot) : a < r

\* the mapping of a table page of the last directory failed
C21_MappingFailed ==
    /\ gpc = "failed" /\ gen >= 8 /\ ppgtt.ret = EIO
    /\ Served("pci_map_pd") = 0 .. MaxPdp - 1
    /\ Served("pci_unmap_page") # {}
    /\ Served("kfree_pt_dma_addr") = 0 .. ppgtt.num_pd_pages - 1

\* the cache levels an encoder has a case or a test for
Handled(encoder) ==
    CASE encoder \in {"snb", "ivb"} -> {"L3_LLC", "LLC", "NONE"}
      [] encoder \in {"byt", "hsw"} -> {"NONE"}
      [] encoder \in {"iris", "gen8"} -> {"NONE", "WT"}

\* the entry of the same call with cache level NONE
EncodedNone ==
    pte_encode(eval.encoder, eval.pfn, "NONE", eval.valid, eval.flags)

UnhandledReturned ==
    eval.fn = "pte_encode" /\ eval.returned /\ eval.level \notin Handled(eval.encoder)

\* C22 as stated: for every encoder a cache level outside the values it
\* handles explicitly yields the entry of cache level NONE for the same
\* address and validity, and logs a warning.
C22_DefaultIsUncached ==
    UnhandledReturned => (eval.pte = EncodedNone /\ eval.warned)

\* the cache bits of NONE, and of a level the encoder does not handle
NoneBits(encoder) ==
    CASE encoder \in {"snb", "ivb"} -> GEN6_PTE_UNCACHED
      [] encoder \in {"byt", "hsw", "iris"} -> 0
      [] encoder = "gen8" -> PPAT_UNCACHED_INDEX

DefaultBits(encoder) ==
    CASE encoder \in {"snb", "ivb"} -> 0
      [] encoder = "byt" -> BYT_PTE_SNOOPED_BY_CPU_CACHES
      [] encoder = "hsw" -> HSW_WB_LLC_AGE3
      [] encoder = "iris" -> HSW_WB_ELLC_LLC_AGE3
      [] encoder = "gen8" -> PPAT_CACHED_INDEX

\* C22, amended: a cache level outside the values the encoder handles
\* explicitly never yields the entry of cache level NONE.  The snb and ivb
\* encoders log a warning and return the address and validity bits with no
\* cache bits; the byt, hsw, iris and gen8 encoders return the cached
\* (snooped or write-back) encoding and log nothing.  No encoder fails.
C22_DefaultEncodings ==
    UnhandledReturned =>
        /\ eval.pte.frame = EncodedNone.frame
        /\ eval.pte.low - DefaultBits(eval.encoder)
               = EncodedNone.low - NoneBits(eval.encoder)
        /\ eval.pte # EncodedNone
        /\ eval.warned = (eval.encoder \in {"snb", "ivb"})

\* the snb encoder returned from a valid write-through entry
C22_SnbWriteThrough ==
    /\ UnhandledReturned
    /\ eval.encoder = "snb" /\ eval.level = "WT" /\ eval.valid
    /\ eval.warned

InsertReturned == eval.fn = "insert_entries" /\ eval.returned

\* the call ended with the TLB-flush register write and its posting read, and
\* every entry of the page list was stored before them
FlushedLast(e) ==
    /\ Len(e.io) >= 2
    /\ SubSeq(e.io, Len(e.io) - 1, Len(e.io)) = GfxFlush
    /\ \A i \in 1 .. Len(e.pages) :
          \E j \in 1 .. Len(e.io) - 2 :
              /\ e.io[j][1] \in {"iowrite32", "gen8_set_pte", "pt_vaddr"}
              /\ e.io[j][2] = e.start + i - 1
    /\ \A j \in 1 .. Len(e.io) - 2 : e.io[j] \notin {GfxFlush[1], GfxFlush[2]}

\* C23 as stated: every insert_entries call, of the global and of the
\* per-process address spaces, ends with the TLB-flush register write followed
\* by a posting read, after every entry of the call was written, also when the
\* page list is empty.
C23_EveryInsertFlushes == InsertReturned => FlushedLast(eval)

\* C23, amended: every insert_entries call of the global address space (gen6
\* and gen8) ends with the TLB-flush register write followed by a posting read,
\* after every entry of the call was written, also when the page list is
\* empty; insert_entries of a per-process page table (gen6 and gen8) stores
\* its entries and accesses no register.
C23_GlobalInsertFlushes ==
    InsertReturned =>
        IF eval.vm \in {"gen6_ggtt", "gen8_ggtt"} THEN FlushedLast(eval)
        ELSE /\ \A j \in DOMAIN eval.io :
                   eval.io[j][1] \in {"pt_vaddr", "drm_clflush_virt_range"}
             /\ Len(SelectSeq(eval.io, LAMBDA a : a[1] = "pt_vaddr")) = Len(eval.pages)

\* the gen6 global insert of an empty page list returned
C23_EmptyListFlushed ==
    /\ InsertReturned
    /\ eval.vm = "gen6_ggtt" /\ eval.pages = << >>
    /\ eval.io = GfxFlush

\* 4 pages were handed to insert_entries, starting 4 entries before the
\* boundary between two page tables
FourBeforeBoundary ==
    /\ eval.fn = "round_trip"
    /\ Len(eval.pages) = 4
    /\ (eval.start + 4) % I915_PPGTT_PT_ENTRIES = 0
    /\ eval.start + 4 < Gen6Total

\* the page tables that hold an entry other than the scratch encoding
TablesWritten ==
    {t \in DOMAIN eval.tables :
        \E i \in DOMAIN eval.tables[t] : eval.tables[t][i] # ScratchEncoding}

\* the page tables on the two sides of the boundary
BothTables ==
    {(eval.start + 4) \div I915_PPGTT_PT_ENTRIES - 1,
     (eval.start + 4) \div I915_PPGTT_PT_ENTRIES}

\* C24 as stated: inserting 4 pages into a 2-level address space starting 4
\* entries before a page-table boundary writes entries in exactly 2 table
\* pages, and a following clear_range over the same range leaves every entry
\* of both tables equal to the scratch encoding.
C24_TwoTablesWritten ==
    FourBeforeBoundary =>
        /\ eval.stage = "inserted" => Cardinality(TablesWritten) = 2
        /\ eval.stage = "cleared" => TablesWritten = {}

\* C24, amended: inserting 4 pages into a 2-level address space starting 4
\* entries before a page-table boundary writes the 4 entries that end the
\* table page before the boundary and no entry of the table page after it, so
\* exactly 1 table page is written; a following clear_range over the same
\* range leaves every entry of both tables equal to the scratch encoding.
C24_OneTableWritten ==
    FourBeforeBoundary =>
        /\ eval.stage = "inserted" =>
              /\ TablesWritten = {(eval.start + 4) \div I915_PPGTT_PT_ENTRIES - 1}
              /\ \A v \in 0 .. Gen6Total - 1 :
                    (EntryAt(eval.tables, v) # ScratchEncoding)
                        <=> (eval.start <= v /\ v < eval.start + 4)
        /\ eval.stage = "cleared" =>
              \A t \in BothTables, i \in 0 .. I915_PPGTT_PT_ENTRIES - 1 :
                  eval.tables[t][i] = ScratchEncoding

\* the 4 pages were inserted and cleared again
C24_InsertedAndCleared == FourBeforeBoundary /\ eval.stage = "cleared"

\* ---- properties of the encoder, bridge and crtc hooks ---------------------
\* the places of hooks where one of the named hooks was invoked on object x
HookCalls(names, x) == {j \in DOMAIN hooks : hooks[j][1] \in names /\ hooks[j][2] = x}

ShutDownHooks == {"encoder_prepare", "encoder_disable", "encoder_dpms_off"}

\* disable_outputs has run and the transaction still holds the old states
OutputsDisabled == PhaseStarted("disable_outputs") /\ ~PhaseStarted("state_free")

\* C25: during pre-plane commit, for every connector of the transaction whose
\* old state was routed to a crtc, the encoder that drove it in the old state
\* is shut down exactly once: by prepare when the connector stays routed, by
\* disable or dpms-off otherwise, also when the new state is unrouted or uses
\* another encoder.
C25_OldEncoderShutDown ==
    OutputsDisabled =>
        \A c \in state.connectors :
            state.connector_states[c].crtc # NONE =>
                /\ Cardinality(HookCalls(ShutDownHooks,
                                         state.connector_states[c].best_encoder)) = 1
                /\ \A j \in HookCalls(ShutDownHooks,
                                       state.connector_states[c].best_encoder) :
                      (hooks[j][1] = "encoder_prepare")
                          <=> (connector_state[c].crtc # NONE)

\* the encoder and bridge hooks of the commit
EncoderCommitHooks ==
    ShutDownHooks \cup {"bridge_disable", "bridge_post_disable", "encoder_mode_set",
                        "bridge_mode_set", "bridge_pre_enable", "encoder_commit",
                        "bridge_enable"}

\* encoder e is routed, in the new state, to a crtc that needs a full modeset
NeedsModeset(e) ==
    \E c \in Connectors :
        /\ connector_state[c].best_encoder = e
        /\ connector_state[c].crtc # NONE
        /\ crtc_state[connector_state[c].crtc].mode_changed

\* C26: during commit the encoder hooks prepare/disable and mode_set
\* (pre-plane) and commit with the bridge's pre_enable/enable (post-plane) are
\* invoked only for encoders whose crtc needs a full modeset (mode_changed in
\* the new crtc state); a transaction that changes only planes or properties
\* invokes none of them.
C26_HooksOnlyOnModeset ==
    \A j \in DOMAIN hooks :
        hooks[j][1] \in EncoderCommitHooks => NeedsModeset(hooks[j][2])

\* ---- properties of a steal that empties a crtc ---------------------------
\* the check that just returned detached connector c: c is live on a crtc with an
\* encoder, the transaction stages it without crtc, and the request did not
StolenFrom(c) ==
    /\ connector_state[c].crtc # NONE
    /\ connector_state[c].best_encoder # NONE
    /\ c \in state.connectors
    /\ state.connector_states[c].crtc = NONE
    /\ (c \in requested.connectors => requested.connector_states[c].crtc # NONE)

\* c is the only connector live on crtc k
OnlyConnectorOf(c, k) ==
    \A d \in Connectors : connector_state[d].crtc = k <=> d = c

\* the check stole the encoder of the only connector of crtc k, and the
\* transaction leaves k enabled without a connector routed to it
EmptiedByTheft(k) ==
    /\ \E c \in Connectors : StolenFrom(c) /\ OnlyConnectorOf(c, k)
    /\ NewCrtcState(k).enable
    /\ \A d \in Connectors : NewConnectorState(d).crtc # k

\* C27: a check that steals the encoder of the only connector of a crtc while
\* the transaction leaves that crtc enabled, so that the crtc is enabled with no
\* connector routed to it, returns -EINVAL.
C27_TheftOfLastConnectorRejected ==
    pc = "checked" => \A k \in Crtcs : EmptiedByTheft(k) => ret = EINVAL

\* the same for a stolen encoder that a single connector held
C27_SoleHolderTheftRejected ==
    pc = "checked" =>
        \A k \in Crtcs :
            ( /\ EmptiedByTheft(k)
              /\ \A c, d \in Connectors :
                    (c # d /\ connector_state[c].best_encoder # NONE)
                        => connector_state[c].best_encoder
                               # connector_state[d].best_encoder )
            => ret = EINVAL

\* ---- properties of the legacy links ---------------------------------------
\* set_routing_links ran for the transaction being committed
LinksSet == PhaseStarted("set_routing_links") /\ ~PhaseStarted("state_free")

\* what connector->encoder is to be: the new best_encoder if the new state has a
\* crtc
NewLink(c) ==
    IF connector_state[c].crtc # NONE THEN connector_state[c].best_encoder ELSE NONE

ConnectorLinked(c) ==
    /\ connector_encoder[c] = NewLink(c)
    /\ connector_encoder[c] # NONE
          => encoder_crtc[connector_encoder[c]] = connector_state[c].crtc

CrtcMirrored(k) ==
    crtc_legacy[k] = [mode |-> crtc_state[k].mode, enabled |-> crtc_state[k].enable]

LinksMirrorState ==
    LinksSet => /\ \A c \in state.connectors : ConnectorLinked(c)
                /\ \A k \in state.crtcs : CrtcMirrored(k)

\* the step of set_routing_links leaves alone connector->encoder and
\* connector->encoder->crtc of the connectors outside the transaction
OutsideLinksKept ==
    (phases' = Append(phases, "set_routing_links")) =>
        \A c \in Connectors \ state.connectors :
            /\ connector_encoder'[c] = connector_encoder[c]
            /\ connector_encoder[c] # NONE
                  => encoder_crtc'[connector_encoder[c]]
                         = encoder_crtc[connector_encoder[c]]

\* C28: once set_routing_links ran, every connector of the transaction has
\* connector->encoder equal to its new best_encoder if its new state has a crtc
\* and NULL otherwise, that encoder's crtc is the connector's new crtc, every
\* crtc of the transaction has crtc->mode and crtc->enabled equal to its new
\* state, and the links of the connectors outside the transaction are as they
\* were before.
C28_LinksMirrorNewState == []LinksMirrorState /\ [][OutsideLinksKept]_vars

\* no two connectors are live on one encoder
LiveEncodersDistinct ==
    \A c, d \in Connectors :
        (c # d /\ connector_state[c].best_encoder # NONE)
            => connector_state[c].best_encoder # connector_state[d].best_encoder

\* no two connectors are linked to one encoder
LinksDistinct ==
    \A c, d \in Connectors :
        (c # d /\ connector_encoder[c] # NONE)
            => connector_encoder[c] # connector_encoder[d]

\* the same when no encoder has two connectors, before and after
C28_DistinctLinksMirrorNewState ==
    /\ [](LiveEncodersDistinct => LinksMirrorState)
    /\ [][(LiveEncodersDistinct /\ LinksDistinct) => OutsideLinksKept]_vars

\* ---- properties of the visits to an encoder -------------------------------
\* the hooks of the transaction were invoked by a check that passed and by the
\* commit that followed it
PassedCheck == pc # "build" /\ pc # "idle" /\ (pc = "checked" => ret = 0)

\* the groups of encoder hooks of which one encoder is to see at most one call
\* per transaction
EncoderVisits ==
    {{"encoder_mode_fixup"}, ShutDownHooks, {"encoder_mode_set"}, {"encoder_commit"}}

\* C29: in a transaction that passed check every encoder has mode_fixup invoked
\* at most once by the check, and its shut-down hook (prepare, disable or dpms
\* off), mode_set and commit at most once each by the commit.
C29_EncoderVisitedOnce ==
    PassedCheck =>
        \A e \in Encoders : \A visit \in EncoderVisits :
            Cardinality(HookCalls(visit, e)) <= 1

\* the connectors of the transaction hold different encoders in the new state
TransactionState(c) ==
    IF PhaseStarted("swap_state") THEN connector_state[c] ELSE state.connector_states[c]

TransactionEncodersDistinct ==
    \A c, d \in state.connectors :
        (c # d /\ TransactionState(c).best_encoder # NONE)
            => TransactionState(c).best_encoder # TransactionState(d).best_encoder

\* the same for transactions whose connectors hold different encoders
C29_DistinctEncoderVisitedOnce ==
    (PassedCheck /\ ~PhaseStarted("state_free") /\ TransactionEncodersDistinct) =>
        \A e \in Encoders : \A visit \in EncoderVisits :
            Cardinality(HookCalls(visit, e)) <= 1

\* ---- properties of mode validation ----------------------------------------
FixupHooks == {"bridge_mode_fixup", "encoder_mode_fixup", "crtc_mode_fixup"}

\* the entries of the hook log of a kind
LogOf(names) == {j \in DOMAIN hooks : hooks[j][1] \in names}

\* a mode_fixup hook was given the adjusted mode of crtc k: the crtc's own hook,
\* or the hooks of the encoder of a connector staged on k
FixedUp(k) ==
    \/ HookCalls({"crtc_mode_fixup"}, k) # {}
    \/ \E c \in state.connectors :
          /\ state.connector_states[c].crtc = k
          /\ state.connector_states[c].best_encoder # NONE
          /\ HookCalls(FixupHooks \ {"crtc_mode_fixup"},
                       state.connector_states[c].best_encoder) # {}

\* every crtc with mode_changed had its mode copied, and still has
\* adjusted_mode = mode if no hook was given its adjusted mode
ModesCopied ==
    \A k \in state.crtcs :
        state.crtc_states[k].mode_changed =>
            /\ HookCalls({"drm_mode_copy"}, k) # {}
            /\ ~FixedUp(k)
                  => state.crtc_states[k].adjusted_mode = state.crtc_states[k].mode

\* C30: when drm_atomic_helper_check has validated the modes, every crtc with
\* mode_changed had mode copied into adjusted_mode, every copy came before every
\* mode_fixup hook, every encoder and bridge mode_fixup came before every crtc
\* mode_fixup, and a mode_fixup that returned false was the last hook invoked
\* and made the check return -EINVAL.
C30_FixupOrder ==
    (pc = "checked" /\ hooks # << >>) =>
        /\ ModesCopied
        /\ \A i \in LogOf({"drm_mode_copy"}) : \A j \in LogOf(FixupHooks) : i < j
        /\ \A i \in LogOf({"bridge_mode_fixup", "encoder_mode_fixup"}) :
              \A j \in LogOf({"crtc_mode_fixup"}) : i < j
        /\ \A j \in DOMAIN hooks : ~hooks[j][3] => (j = Len(hooks) /\ ret = EINVAL)

\* a check of two crtcs and two encoders in which the mode_fixup of the first
\* crtc returned false: both encoders were asked before it, the second crtc
\* was not asked
C30_CrtcFixupRefused ==
    /\ pc = "checked"
    /\ ret = EINVAL
    /\ Cardinality(LogOf({"drm_mode_copy"})) = 2
    /\ Cardinality(LogOf({"encoder_mode_fixup"})) = 2
    /\ LogOf({"crtc_mode_fixup"}) = {Len(hooks)}
    /\ hooks[Len(hooks)] = <<"crtc_mode_fixup", 1, FALSE>>
    /\ \E k \in state.crtcs : state.crtc_states[k].mode # 0

\* ---- properties of the adjusted mode given to the encoders ---------------
\* entry j of the hook log is a bridge or encoder mode_fixup on the encoder of a
\* connector whose crtc has mode_changed and had its mode copied before entry j
OnCopiedMode(j) ==
    \E c \in state.connectors :
        /\ state.connector_states[c].best_encoder = hooks[j][2]
        /\ state.connector_states[c].crtc # NONE
        /\ state.connector_states[c].crtc \in state.crtcs
        /\ state.crtc_states[state.connector_states[c].crtc].mode_changed
        /\ \E i \in HookCalls({"drm_mode_copy"}, state.connector_states[c].crtc) : i < j

\* C31: every bridge or encoder mode_fixup invoked by a check is given the
\* adjusted mode of a crtc that has mode_changed and whose mode was copied into
\* it earlier in that check.
C31_FixupOnCopiedMode ==
    pc = "checked" =>
        \A j \in LogOf({"bridge_mode_fixup", "encoder_mode_fixup"}) : OnCopiedMode(j)

\* ---- properties of a duplicated crtc state --------------------------------
\* the transaction leaves crtc k as it is live: same mode and enable, no
\* connector was requested to move to k, and every connector live on k or staged
\* on k keeps its crtc and its encoder
Untouched(k) ==
    /\ state.crtc_states[k].mode = crtc_state[k].mode
    /\ state.crtc_states[k].enable = crtc_state[k].enable
    /\ \A c \in requested.connectors :
          requested.connector_states[c].crtc = k => connector_state[c].crtc = k
    /\ \A c \in Connectors :
          (connector_state[c].crtc = k \/ NewConnectorState(c).crtc = k)
              => /\ NewConnectorState(c).crtc = connector_state[c].crtc
                 /\ NewConnectorState(c).best_encoder = connector_state[c].best_encoder

\* the duplicate of the live state of crtc k has the flags and the event cleared
\* and everything else copied
DuplicateCleared(k) ==
    drm_atomic_helper_crtc_duplicate_state(crtc_state[k])
        = [crtc_state[k] EXCEPT !.mode_changed = FALSE, !.planes_changed = FALSE,
                                !.event = FALSE, !.id = 1 - crtc_state[k].id]

\* C32: the duplicate of a live crtc state has mode_changed, planes_changed and
\* event cleared, and a check that passed leaves mode_changed false on every crtc
\* of the transaction whose mode, enable and connectors (their crtc and encoder)
\* are as in the live state, also when the live state is one a full modeset
\* was committed with.
C32_DuplicateStartsClean ==
    /\ \A k \in Crtcs : DuplicateCleared(k)
    /\ CheckPassed =>
          \A k \in state.crtcs : Untouched(k) => ~state.crtc_states[k].mode_changed

\* a passed check of a transaction that leaves alone a routed crtc whose live
\* state has mode_changed and event set, as the commit before left it
C32_CheckedAfterModeset ==
    /\ CheckPassed
    /\ \E k \in state.crtcs :
          /\ Untouched(k)
          /\ crtc_state[k].mode_changed
          /\ crtc_state[k].event
          /\ crtc_state[k].enable
          /\ \E c \in state.connectors : state.connector_states[c].crtc = k

\* ---- properties of the page flip ------------------------------------------
FlipReturned == pc = "returned" /\ helper.name = "page_flip"

\* the transaction of the call was freed once and never handed to a commit, no
\* staged state became live and plane->fb is as it was
FlipUndone ==
    /\ helper.allocated => (frees = 1 /\ handed = 0)
    /\ state = EmptyState
    /\ \A p \in Planes : plane_state[p] = ResetPlaneState /\ plane_fb[p] = NONE
    /\ \A k \in Crtcs : crtc_state[k] = ResetCrtcState

FbCommits == 2
FbPlanes == 2
FbFbs == 2
MaxFbCalls == 4

InitFbs ==
    /\ InitDevice(1, 1, 1, FbPlanes)
    /\ has_prepare_fb = TRUE
    /\ has_cleanup_fb = TRUE

\* the record of prepare_fb and cleanup_fb calls runs on from one transaction
\* to the next, for as long as it is short
AllocFbs ==
    /\ Len(calls) < MaxFbCalls
    /\ StateAllocFrom(FbCommits, calls)

SetPlaneFb == SetPlaneTo(1 .. FbFbs, {FALSE})

NextFbs ==
    \/ AllocFbs
    \/ SetPlaneFb
    \/ CheckRouting
    \/ StateFreeFailed
    \/ Commit

\* a device with one crtc and two planes with both framebuffer hooks: every
\* transaction gives planes a framebuffer or takes it away, and prepare_fb may fail
SpecFbs == InitFbs /\ [][NextFbs]_vars

\* the successful calls of a hook for plane p and framebuffer fb so far
FbCalls(hook, p, fb) ==
    Cardinality({j \in DOMAIN calls : calls[j] = <<hook, p, fb, 0>>})

FbBalance(p, fb) == FbCalls("prepare_fb", p, fb) - FbCalls("cleanup_fb", p, fb)

\* no commit is under way
BetweenCommits == pc \in {"idle", "build", "checked", "commit_failed", "committed"}

\* C34: between commits, for every plane and framebuffer the prepare_fb calls
\* exceed the cleanup_fb calls by one when the framebuffer is in the plane's live
\* state and by nothing otherwise
C34_FbBalanced ==
    BetweenCommits =>
        \A p \in Planes, fb \in 1 .. FbFbs :
            FbBalance(p, fb) = IF plane_state[p].fb = fb THEN 1 ELSE 0

\* a second commit has returned, a plane shows a framebuffer that replaced
\* another one, and a prepare_fb has failed on the way
C34_FbReplacedAfterFailure ==
    /\ pc = "committed"
    /\ commits = FbCommits
    /\ \E j \in DOMAIN calls : calls[j][1] = "prepare_fb" /\ calls[j][4] # 0
    /\ \E p \in Planes :
          /\ plane_state[p].fb # NONE
          /\ \E fb \in 1 .. FbFbs : fb # plane_state[p].fb /\ FbCalls("cleanup_fb", p, fb) > 0
\* ---- the output routing of set_config -----------------------------------

OutputConnectors == 2
OutputCrtcs == 2

\* every crtc has its primary plane
InitOutput ==
    /\ InitDevice(OutputConnectors, OutputCrtcs, 1, OutputCrtcs)
    /\ has_prepare_fb = TRUE
    /\ has_cleanup_fb = TRUE

\* set_config requests on any crtc with any set of connectors, with or without a mode
OutputCalls ==
    [name : {"set_config"}, plane : {NONE}, crtc : Crtcs, connector : {NONE},
     fb : Fbs, mode : 1 .. NumModes, connectors : SUBSET Connectors,
     async : {FALSE}, allocated : {FALSE}, event : {FALSE}]
    \cup [name : {"set_config"}, plane : {NONE}, crtc : Crtcs, connector : {NONE},
          fb : {NONE}, mode : {0}, connectors : SUBSET Connectors,
          async : {FALSE}, allocated : {FALSE}, event : {FALSE}]

OutputCall == Called(OutputCalls)

\* what the lock domain and the commit of the driver answer in one round
OutputEnvs ==
    {env \in [fail : {NoFail, <<"connection_mutex", 0>>}
                     \cup ({"lock_crtc"} \X Crtcs) \cup ({"lock_connector"} \X Connectors),
              err : {EDEADLK}, commit : {0, EINVAL}] :
        Deadlocks(env) => contended}

\* retry: drm_atomic_helper_set_config up to the return of update_output_state
OutputStage ==
    /\ pc = "retry"
    /\ \E env \in OutputEnvs :
          /\ state' = set_config_stage(Mem, helper, env).state
          /\ ret' = set_config_stage(Mem, helper, env).ret
    /\ pc' = IF ret' = 0 THEN "output" ELSE "fail"
    /\ UNCHANGED <<callervars, plane_fb, livevars, helper, contended, retries, frees,
                   handed>>

\* commit: ret = drm_atomic_commit(state)
OutputCommit ==
    /\ pc = "output"
    /\ \E env \in OutputEnvs : RoundReturns(drm_atomic_commit(Mem, env))
    /\ UNCHANGED <<callervars, helper, contended, retries, frees>>

NextOutput ==
    \/ OutputCall
    \/ OutputStage
    \/ OutputCommit
    \/ LegacyFail
    \/ LegacyBackoff
    \/ LockFreed

\* set_config called again and again on a device with two connectors and two
\* crtcs; the transaction is looked at when update_output_state has returned
SpecOutput == InitOutput /\ [][NextOutput]_vars

RoutedTo(k) == {c \in state.connectors : state.connector_states[c].crtc = k}

\* C35: when update_output_state has returned 0, a connector state of the
\* transaction is routed to set->crtc exactly when its connector is in the set,
\* every other crtc of the transaction is enabled exactly when a connector of the
\* transaction is routed to it, and set->crtc has the enable set_config staged
C35_OutputState ==
    pc = "output" =>
        /\ RoutedTo(helper.crtc) = state.connectors \cap helper.connectors
        /\ \A k \in state.crtcs \ {helper.crtc} :
              state.crtc_states[k].enable = (RoutedTo(k) # {})
        /\ state.crtc_states[helper.crtc].enable = (helper.mode # 0)

\* update_output_state has returned after it took a connector off set->crtc and
\* the last connector off another crtc, which it disabled, while set->crtc is
\* staged enabled without a connector
C35_OtherCrtcDisabled ==
    /\ pc = "output"
    /\ \E c \in state.connectors \ helper.connectors :
          connector_state[c].crtc = helper.crtc
    /\ \E k \in state.crtcs \ {helper.crtc} :
          /\ crtc_state[k].enable
          /\ ~state.crtc_states[k].enable
          /\ \E c \in helper.connectors : connector_state[c].crtc = k
\* ---- enabling the outputs after the plane update -------------------------

EnableConnectors == 2
EnableCrtcs == 2
EnableEncoders == 2
EnablePlanes == 1
EnableCommits == 2

InitEnable ==
    /\ InitDevice(EnableConnectors, EnableCrtcs, EnableEncoders, EnablePlanes)
    /\ has_prepare_fb = TRUE
    /\ has_cleanup_fb = TRUE

AllocEnable == StateAlloc(EnableCommits)

SetPlaneUnfenced == SetPlaneTo(Fbs, {FALSE})

NextEnable ==
    \/ AllocEnable
    \/ SetCrtcForConnector
    \/ SetCrtcEnable
    \/ SetPlaneUnfenced
    \/ CheckRouting
    \/ StateFreeFailed
    \/ Commit

\* a device with two connectors, crtcs and encoders and one plane, one encoder with
\* a bridge: transactions route connectors, enable crtcs and update planes
SpecEnable == InitEnable /\ [][NextEnable]_vars

EnableHooks == {"bridge_pre_enable", "encoder_commit", "bridge_enable"}

\* entry j of the hook log is hook name for encoder e
IsHook(j, name, e) == j \in DOMAIN hooks /\ hooks[j] = <<name, e, TRUE>>

\* around the commit of an encoder with a bridge stand pre_enable and enable
BridgeAround(j) ==
    /\ hooks[j][1] = "encoder_commit" /\ HasBridge(hooks[j][2]) =>
          /\ IsHook(j - 1, "bridge_pre_enable", hooks[j][2])
          /\ IsHook(j + 1, "bridge_enable", hooks[j][2])
    /\ hooks[j][1] = "bridge_pre_enable" => IsHook(j + 1, "encoder_commit", hooks[j][2])
    /\ hooks[j][1] = "bridge_enable" => IsHook(j - 1, "encoder_commit", hooks[j][2])

\* the crtc of the committed transaction had a full modeset and is enabled
CommitsCrtc(k) ==
    k \in staged.crtcs /\ crtc_state[k].mode_changed /\ crtc_state[k].enable

\* C36: in post-plane commit every crtc commit hook runs before any encoder
\* hook; the hooks of an encoder come in the order bridge pre_enable, encoder
\* commit, bridge enable; exactly the enabled crtcs of the transaction that had a
\* full modeset get the commit hook, once
C36_EnableOrder ==
    /\ \A i \in LogOf({"crtc_commit"}), j \in LogOf(EnableHooks) : i < j
    /\ \A j \in LogOf(EnableHooks) : BridgeAround(j)
    /\ \A k \in Crtcs :
          Cardinality(HookCalls({"crtc_commit"}, k)) =
              IF PhaseStarted("commit_post_planes") /\ CommitsCrtc(k) THEN 1 ELSE 0

\* a commit returned that committed a crtc and an encoder with a bridge while
\* another, enabled crtc of the transaction had only its planes changed
C36_PlanesOnlyCrtcSkipped ==
    /\ pc = "committed"
    /\ LogOf({"crtc_commit"}) # {}
    /\ LogOf({"bridge_enable"}) # {}
    /\ \E k \in staged.crtcs :
          /\ crtc_state[k].enable
          /\ crtc_state[k].planes_changed
          /\ ~crtc_state[k].mode_changed
\* ---- which table ggtt_bind_vma writes ------------------------------------

\* the memory after ggtt_bind_vma binds object o, whose node starts at s
GgttBound(o, s, cache_level, global_bind) ==
    ggtt_bind_vma([Gtt EXCEPT !.obj[o].start = s], o, cache_level,
                  [global_bind |-> global_bind])

\* the global PTEs of object o at s map its pages with cache_level
GlobalSet(g, o, s, cache_level, global_bind) ==
    g.gsm = GgttInsertEntries(gsm, ObjPages(o), s, cache_level,
                              [global_bind |-> global_bind])

\* the global PTEs are as before and the aliasing page table maps the pages of o
AliasingSetInstead(g, o, s, cache_level, global_bind) ==
    /\ g.gsm = gsm
    /\ g.tables = PpgttInsertEntries(ppgtt.tables, ObjPages(o), s, cache_level,
                                     [global_bind |-> global_bind])

\* where the node of object o is or may be placed
NodeStarts(o) == IF obj[o].start = NoNode THEN FreeStarts(o) ELSE {obj[o].start}

\* ggtt_bind_vma is the bind function of the VMAs
GgttBinds == gpc = "ready" /\ gen >= 6 /\ enable_ppgtt # 2

\* C37: ggtt_bind_vma sets the global PTEs when there is no aliasing page
\* table, or the caller asks for a global mapping, or the object has a global
\* mapping and its cache level changes; in every other case the global PTEs
\* stay as they are and the aliasing page table maps the object
C37_GlobalBindCases ==
    GgttBinds =>
        \A o \in Objects, cache_level \in BindLevels, global_bind \in BOOLEAN :
        \A s \in NodeStarts(o) :
            IF \/ enable_ppgtt # 1
               \/ global_bind
               \/ obj[o].has_global_gtt_mapping /\ cache_level # obj[o].cache_level
            THEN GlobalSet(GgttBound(o, s, cache_level, global_bind), o, s, cache_level,
                           global_bind)
            ELSE AliasingSetInstead(GgttBound(o, s, cache_level, global_bind), o, s,
                                    cache_level, global_bind)

\* as the conditions are nested: the global PTEs are set when there is no
\* aliasing page table or the caller asks for a global mapping, and the object
\* has no global mapping yet or its cache level changes; otherwise they stay as
\* they are.  The aliasing page table is set when it exists and the object has
\* no aliasing mapping yet or its cache level changes.
C37_GlobalBindNested ==
    GgttBinds =>
        \A o \in Objects, cache_level \in BindLevels, global_bind \in BOOLEAN :
        \A s \in NodeStarts(o) :
            /\ IF /\ enable_ppgtt # 1 \/ global_bind
                  /\ \/ ~obj[o].has_global_gtt_mapping
                     \/ cache_level # obj[o].cache_level
               THEN GlobalSet(GgttBound(o, s, cache_level, global_bind), o, s,
                              cache_level, global_bind)
               ELSE GgttBound(o, s, cache_level, global_bind).gsm = gsm
            /\ IF /\ enable_ppgtt = 1
                  /\ \/ ~obj[o].has_aliasing_ppgtt_mapping
                     \/ cache_level # obj[o].cache_level
               THEN GgttBound(o, s, cache_level, global_bind).tables
                      = PpgttInsertEntries(ppgtt.tables, ObjPages(o), s, cache_level,
                                           [global_bind |-> global_bind])
               ELSE GgttBound(o, s, cache_level, global_bind).tables = ppgtt.tables
\* ---- unwinding a failed allocation of 2-level page-table pages --------------

\* the initialisation of a 2-level page table reserved the directory region and
\* returned -ENOMEM before every page-table page was allocated: the allocation
\* of the page array or of page Cardinality(Served("alloc_page")) failed
TablePageAllocFailed ==
    /\ gpc = "failed" /\ gen < 8
    /\ ppgtt.ret = ENOMEM
    /\ Calls("drm_mm_insert_node", 0) # {}
    /\ Cardinality(Served("alloc_page")) < GEN6_PPGTT_PD_ENTRIES

\* C38: when the allocation of page-table page k fails, the unwind frees
\* exactly the pages below k, each once and none that was never allocated, and
\* releases the reserved directory region
C38_AllocUnwind ==
    TablePageAllocFailed =>
        /\ Served("__free_page") = Served("alloc_page")
        /\ \A i \in Served("alloc_page") : TimesServed("__free_page", i) = 1
        /\ ~ppgtt.oops
        /\ ~ppgtt.node

\* what the unwind does: the pages below k are freed once each; when the
\* unwind ran, __free_page was also called on slot k, which holds no page
C38_UnwindReachesEmptySlot ==
    TablePageAllocFailed =>
        /\ \A i \in Served("alloc_page") : TimesServed("__free_page", i) <= 1
        /\ Served("__free_page") # {} =>
              /\ Served("__free_page") = 0 .. Cardinality(Served("alloc_page"))
              /\ ppgtt.oops
\* ---- reserving the directory region of a 2-level page table -----------------

\* the places of the log where the service was called
ServiceCalls(service) == {j \in DOMAIN ppgtt.log : ppgtt.log[j][1] = service}

\* what the n-th call of the service returned
AnswerOf(service, n) ==
    ppgtt.log[CHOOSE j \in ServiceCalls(service) :
                  Cardinality({h \in ServiceCalls(service) : h <= j}) = n][2]

Reservations == Cardinality(ServiceCalls("drm_mm_insert_node"))

Evictions == Cardinality(ServiceCalls("i915_gem_evict_something"))

\* the initialisation of a 2-level page table just returned
Gen6InitReturned == gen \in {6, 7} /\ gpc \in {"ready", "failed"} /\ last.op = "init"

\* C39: the directory region is reserved at most twice and the eviction runs at
\* most once; it runs exactly when the first reservation lacks space; the
\* reservation is retried exactly when the eviction succeeds; an eviction error
\* and a second lack of space are returned
C39_OneEvictionOneRetry ==
    Gen6InitReturned =>
        /\ Reservations \in {1, 2}
        /\ Evictions = IF AnswerOf("drm_mm_insert_node", 1) = ENOSPC THEN 1 ELSE 0
        /\ Reservations = IF Evictions = 1 /\ AnswerOf("i915_gem_evict_something", 1) = 0
                          THEN 2 ELSE 1
        /\ (Evictions = 1 /\ AnswerOf("i915_gem_evict_something", 1) # 0) =>
              ppgtt.ret = AnswerOf("i915_gem_evict_something", 1)
        /\ (Reservations = 2 /\ AnswerOf("drm_mm_insert_node", 2) = ENOSPC) =>
              ppgtt.ret = ENOSPC

\* the reservation lacked space twice with a successful eviction in between
C39_SecondLackOfSpace ==
    /\ Gen6InitReturned
    /\ Reservations = 2
    /\ Evictions = 1
    /\ AnswerOf("drm_mm_insert_node", 2) = ENOSPC
    /\ ppgtt.ret = ENOSPC
\* ---- the range the clear_range of the global table writes -----------------

\* every index first + i, i below num, is an entry of the table
WritesInside(first, num) ==
    \/ num = [hi |-> 0, lo |-> 0]
    \/ /\ ~WordGt(first, ToUnsigned(Wide(GttEntries)))
       /\ ~WordGt(num, WordSub(ToUnsigned(Wide(GttEntries)), first))

C40_ClampedFromInside ==
    (/\ eval.fn = "ggtt_clear_range" /\ eval.returned
     /\ ~WordGt(eval.first, ToUnsigned(Wide(GttEntries)))) =>
        /\ WritesInside(eval.first, eval.num)
        /\ WordGt(ToUnsigned(eval.length),
                  WordSub(ToUnsigned(Wide(GttEntries)), eval.first)) =>
              eval.num = WordSub(ToUnsigned(Wide(GttEntries)), eval.first)

====
